---- MODULE Spec2Model ----
(***************************************************************************)
(* Woo-to-SP: WooCommerce to Shopify migration toolkit.                    *)
(*                                                                         *)
(* The module models                                                       *)
(*   - the order migration (orders/orders.py): the regular-expression      *)
(*     parsing of a line-item cell, parse_meta_info, and one run of        *)
(*     convert_orders;                                                     *)
(*   - the generic driver (base/base_migration.py): one run of             *)
(*     BaseMigrationTool.convert_data over abstract items;                 *)
(*   - the end of a run (write + report) of every migration tool.          *)
(*                                                                         *)
(* A Python str is a sequence of one-character strings, so that the        *)
(* regular expressions of the code are computed on the characters.        *)
(* A float holding an amount of money is the integer number of hundredths; *)
(* the quotient total / quantity is an exact fraction [num, den].          *)
(***************************************************************************)
EXTENDS Integers, Sequences, FiniteSets, TLC

----------------------------------------------------------------------------
(* Characters and Python string primitives                                 *)

DigitChars == {"0","1","2","3","4","5","6","7","8","9"}

DigitVal(c) ==
    CASE c = "0" -> 0 [] c = "1" -> 1 [] c = "2" -> 2 [] c = "3" -> 3
      [] c = "4" -> 4 [] c = "5" -> 5 [] c = "6" -> 6 [] c = "7" -> 7
      [] c = "8" -> 8 [] c = "9" -> 9

UpperChars == <<"A","B","C","D","E","F","G","H","I","J","K","L","M",
                "N","O","P","Q","R","S","T","U","V","W","X","Y","Z">>
LowerChars == <<"a","b","c","d","e","f","g","h","i","j","k","l","m",
                "n","o","p","q","r","s","t","u","v","w","x","y","z">>

\* str.lower() on one character
LowerChar(c) ==
    IF \E i \in 1..26 : UpperChars[i] = c
    THEN LowerChars[CHOOSE i \in 1..26 : UpperChars[i] = c]
    ELSE c

\* str.lower()
Lower(s) == [i \in 1..Len(s) |-> LowerChar(s[i])]

\* str.replace(a, b) for one-character a and b
ReplaceChar(s, a, b) == [i \in 1..Len(s) |-> IF s[i] = a THEN b ELSE s[i]]

\* str.startswith(p), and the same test at position i of s
StartsWithAt(s, p, i) ==
    /\ i >= 1
    /\ i + Len(p) - 1 <= Len(s)
    /\ \A k \in 1..Len(p) : s[i + k - 1] = p[k]

StartsWith(s, p) == StartsWithAt(s, p, 1)

\* str.strip(): leading and trailing blanks removed
RECURSIVE LStrip(_)
LStrip(s) == IF s # <<>> /\ Head(s) = " " THEN LStrip(Tail(s)) ELSE s

RECURSIVE RStrip(_)
RStrip(s) ==
    IF s # <<>> /\ s[Len(s)] = " " THEN RStrip(SubSeq(s, 1, Len(s) - 1)) ELSE s

Strip(s) == RStrip(LStrip(s))

\* " ".join(parts)
RECURSIVE JoinWith(_, _)
JoinWith(parts, sep) ==
    IF parts = <<>> THEN <<>>
    ELSE IF Len(parts) = 1 THEN parts[1]
    ELSE parts[1] \o sep \o JoinWith(Tail(parts), sep)

\* int(digits)
RECURSIVE ParseInt(_)
ParseInt(ds) ==
    IF ds = <<>> THEN 0
    ELSE ParseInt(SubSeq(ds, 1, Len(ds) - 1)) * 10 + DigitVal(ds[Len(ds)])

\* Least element of a non-empty set of integers
MinOf(S) == CHOOSE x \in S : \A y \in S : x <= y

\* Last index j >= i - 1 such that every character of s[i..j] is in cs:
\* the end of a greedy character-class repetition [cs]* started at i.
SpanIn(s, i, cs) ==
    LET stops == {j \in i..Len(s) : s[j] \notin cs}
    IN  IF stops = {} THEN Len(s) ELSE MinOf(stops) - 1

\* The same for a negated class [^cs]*.
SpanNotIn(s, i, cs) ==
    LET stops == {j \in i..Len(s) : s[j] \in cs}
    IN  IF stops = {} THEN Len(s) ELSE MinOf(stops) - 1

\* float(text) of a text matching \d+\.?\d*, in hundredths (the texts of
\* the model have at most two decimals).
ParseFloat(g) ==
    LET e1   == SpanIn(g, 1, DigitChars)
        frac == IF e1 < Len(g) THEN SubSeq(g, e1 + 2, Len(g)) ELSE <<>>
        f2   == IF Len(frac) = 0 THEN 0
                ELSE IF Len(frac) = 1 THEN DigitVal(frac[1]) * 10
                ELSE DigitVal(frac[1]) * 10 + DigitVal(frac[2])
    IN  ParseInt(SubSeq(g, 1, e1)) * 100 + f2

\* Exact quotients of floats
RECURSIVE GCD(_, _)
GCD(a, b) == IF b = 0 THEN a ELSE GCD(b, a % b)

Ratio(n, d) ==
    IF n = 0 THEN [num |-> 0, den |-> 1]
    ELSE [num |-> n \div GCD(n, d), den |-> d \div GCD(n, d)]

\* n / d of Python: a quotient, or the ZeroDivisionError it raises
ZeroDivisionError == [num |-> 0, den |-> 0]

PyDiv(n, d) == IF d = 0 THEN ZeroDivisionError ELSE Ratio(n, d)

----------------------------------------------------------------------------
(* The regular expressions of orders/orders.py.  A match object is <<>>    *)
(* (None) or the one-element sequence of its group 1; re.search returns    *)
(* the leftmost match.                                                     *)

item_kw ==
    [name |-> <<"n","a","m","e",":">>,
     quantity |-> <<"q","u","a","n","t","i","t","y",":">>,
     total |-> <<"t","o","t","a","l",":">>,
     sku |-> <<"s","k","u",":">>]

kw_meta == <<"m","e","t","a",":">>

pao_re ==
    [ids |-> <<"m","e","t","a",":","_","p","a","o","_","i","d","s",":">>,
     key |-> <<"s",":","3",":","\"","k","e","y","\"",";","s",":">>,
     open |-> <<":","\"">>,
     value |-> <<"\"",";","s",":","5",":","\"","v","a","l","u","e","\"",";","s",":">>,
     close |-> <<"\"",";">>,
     raw |-> <<"s",":","9",":","\"","r","a","w","_","p","r","i","c","e","\"",";","d",":">>]
str_pa_ == <<"p","a","_">>

\* re.search(kw + r'([^|]+)', s)
SearchNotPipe(s, kw) ==
    LET at == {i \in 1..(Len(s) - Len(kw)) :
                 StartsWithAt(s, kw, i) /\ s[i + Len(kw)] # "|"}
        gs == MinOf(at) + Len(kw)
    IN  IF at = {} THEN <<>>
        ELSE <<SubSeq(s, gs, SpanNotIn(s, gs, {"|"}))>>

\* re.search(kw + r'(\d+)', s)
SearchDigits(s, kw) ==
    LET at == {i \in 1..(Len(s) - Len(kw)) :
                 StartsWithAt(s, kw, i) /\ s[i + Len(kw)] \in DigitChars}
        gs == MinOf(at) + Len(kw)
    IN  IF at = {} THEN <<>>
        ELSE <<SubSeq(s, gs, SpanIn(s, gs, DigitChars))>>

\* re.search(kw + r'(\d+\.?\d*)', s)
SearchDecimal(s, kw) ==
    LET at == {i \in 1..(Len(s) - Len(kw)) :
                 StartsWithAt(s, kw, i) /\ s[i + Len(kw)] \in DigitChars}
        gs == MinOf(at) + Len(kw)
        e1 == SpanIn(s, gs, DigitChars)
        e2 == IF e1 < Len(s) /\ s[e1 + 1] = "."
              THEN SpanIn(s, e1 + 2, DigitChars)
              ELSE e1
    IN  IF at = {} THEN <<>>
        ELSE <<SubSeq(s, gs, e2)>>

name_match(line_item) == SearchNotPipe(line_item, item_kw.name)
qty_match(line_item) == SearchDigits(line_item, item_kw.quantity)
total_match(line_item) == SearchDecimal(line_item, item_kw.total)
sku_match(line_item) == SearchNotPipe(line_item, item_kw.sku)

\* re.findall(r'meta:([^:]+):([^|]+)', s): the non-overlapping matches from
\* left to right, each a pair <<key, value>>.  After "meta:" the key is the
\* longest run without ':', which must be non-empty and followed by ':' and
\* by at least one character other than '|'.
MetaMatchAt(s, i) ==
    LET ks == i + Len(kw_meta)
        ke == SpanNotIn(s, ks, {":"})
        vs == ke + 2
        ve == SpanNotIn(s, vs, {"|"})
    IN  IF /\ StartsWithAt(s, kw_meta, i)
           /\ ke >= ks
           /\ ke < Len(s)
           /\ ve >= vs
        THEN <<SubSeq(s, ks, ke), SubSeq(s, vs, ve), ve>>
        ELSE <<>>

RECURSIVE meta_pairs(_, _)
meta_pairs(s, from) ==
    LET at == {i \in from..Len(s) : MetaMatchAt(s, i) # <<>>}
        m  == MetaMatchAt(s, MinOf(at))
    IN  IF at = {} THEN <<>>
        ELSE <<<<m[1], m[2]>>>> \o meta_pairs(s, m[3] + 1)

\* One attempt of the price pattern
\*   s:3:"key";s:\d+:"([^"]+)";s:5:"value";s:\d+:"([^"]+)";.*?s:9:"raw_price";d:(\d+)
\* anchored at position i: <<>> or <<key, value, price digits, end index>>.
PaoMatchAt(s, i) ==
    LET d1s == i + Len(pao_re.key)
        d1e == SpanIn(s, d1s, DigitChars)
        ks  == d1e + 1 + Len(pao_re.open)
        ke  == SpanNotIn(s, ks, {"\""})
        d2s == ke + 1 + Len(pao_re.value)
        d2e == SpanIn(s, d2s, DigitChars)
        vs  == d2e + 1 + Len(pao_re.open)
        ve  == SpanNotIn(s, vs, {"\""})
        rs  == ve + 1 + Len(pao_re.close)
        \* .*? is lazy: the nearest raw_price that is followed by a digit
        RawAt(j) == /\ StartsWithAt(s, pao_re.raw, j)
                    /\ j + Len(pao_re.raw) <= Len(s)
                    /\ s[j + Len(pao_re.raw)] \in DigitChars
        cand == {j \in rs..Len(s) : RawAt(j)}
        r   == CHOOSE j \in cand : \A k \in cand : j <= k
        ps  == r + Len(pao_re.raw)
        pe  == SpanIn(s, ps, DigitChars)
    IN  IF /\ StartsWithAt(s, pao_re.key, i)
           /\ d1e >= d1s
           /\ StartsWithAt(s, pao_re.open, d1e + 1)
           /\ ke >= ks
           /\ StartsWithAt(s, pao_re.value, ke + 1)
           /\ d2e >= d2s
           /\ StartsWithAt(s, pao_re.open, d2e + 1)
           /\ ve >= vs
           /\ StartsWithAt(s, pao_re.close, ve + 1)
           /\ cand # {}
        THEN <<SubSeq(s, ks, ke), SubSeq(s, vs, ve), SubSeq(s, ps, pe), pe>>
        ELSE <<>>

\* re.finditer of the price pattern over pao_data: the matches left to right
RECURSIVE price_matches(_, _)
price_matches(s, from) ==
    LET at == {i \in from..Len(s) : PaoMatchAt(s, i) # <<>>}
        m  == PaoMatchAt(s, MinOf(at))
    IN  IF at = {} THEN <<>>
        ELSE <<m>> \o price_matches(s, m[4] + 1)

----------------------------------------------------------------------------
(* Python dict with insertion order: a sequence of <<key, value>> pairs.   *)

DictHas(d, k) == \E i \in 1..Len(d) : d[i][1] = k

DictGet(d, k, default) ==
    IF DictHas(d, k) THEN d[CHOOSE i \in 1..Len(d) : d[i][1] = k][2]
    ELSE default

\* d[k] = v: a key already present keeps its place and gets the new value
DictSet(d, k, v) ==
    IF DictHas(d, k)
    THEN [i \in 1..Len(d) |-> IF d[i][1] = k THEN <<k, v>> ELSE d[i]]
    ELSE Append(d, <<k, v>>)

----------------------------------------------------------------------------
(* OrderMigrationTool: meta fields of a line item                          *)

\* self.meta_mapping is a function from meta keys to rules
\* [name_prefix, name_suffix, sku_prefix, price_field]; {} is <<>>.

format_meta_name(meta_mapping, key, value) ==
    IF key \in DOMAIN meta_mapping
    THEN LET prefix == meta_mapping[key].name_prefix
             suffix == meta_mapping[key].name_suffix
         IN  IF suffix # <<>> /\ prefix = <<>>
             THEN value \o <<" ">> \o suffix
             ELSE JoinWith((IF prefix # <<>> THEN <<prefix>> ELSE <<>>)
                             \o <<value>>
                             \o (IF suffix # <<>> THEN <<suffix>> ELSE <<>>),
                           <<" ">>)
    ELSE value

\* First pass of parse_meta_info: meta_values[key] = value.strip()
RECURSIVE meta_values_of_FirstWins(_, _)
meta_values_of_FirstWins(pairs, d) ==
    IF pairs = <<>> THEN d
    ELSE meta_values_of_FirstWins(
             Tail(pairs),
             IF DictHas(d, pairs[1][1]) THEN d
             ELSE DictSet(d, pairs[1][1], Strip(pairs[1][2])))

RECURSIVE meta_values_of(_, _)
meta_values_of(pairs, d) ==
    IF pairs = <<>> THEN d
    ELSE meta_values_of(Tail(pairs),
                        DictSet(d, pairs[1][1], Strip(pairs[1][2])))

\* prices[key] = float(price) for every match of the price pattern
RECURSIVE prices_of_ByValue(_, _)
prices_of_ByValue(matches, d) ==
    IF matches = <<>> THEN d
    ELSE prices_of_ByValue(
             Tail(matches),
             DictSet(d, matches[1][2], ParseInt(matches[1][3]) * 100))

RECURSIVE prices_of(_, _)
prices_of(matches, d) ==
    IF matches = <<>> THEN d
    ELSE prices_of(Tail(matches),
                   DictSet(d, matches[1][1], ParseInt(matches[1][3]) * 100))

pao_prices(meta_str) ==
    LET pao_match == SearchNotPipe(meta_str, pao_re.ids)
    IN  IF pao_match # <<>>
        THEN prices_of(price_matches(pao_match[1], 1), <<>>)
        ELSE <<>>

\* The item built for one promoted meta field
meta_item(meta_mapping, prices, key, value) ==
    [name              |-> format_meta_name(meta_mapping, key, value),
     quantity          |-> 1,
     price             |-> Ratio(DictGet(prices, key, 0), 1),
     sku               |-> meta_mapping[key].sku_prefix
                             \o ReplaceChar(Lower(value), " ", "-"),
     requires_shipping |-> TRUE,
     taxable           |-> TRUE]

\* Third pass of parse_meta_info over meta_values.items()
RECURSIVE meta_items_of(_, _, _)
meta_items_of(meta_mapping, prices, mv) ==
    IF mv = <<>> THEN <<>>
    ELSE LET key   == mv[1][1]
             value == mv[1][2]
             rest  == meta_items_of(meta_mapping, prices, Tail(mv))
         IN  IF key \in DOMAIN meta_mapping
             THEN IF StartsWith(key, str_pa_)
                  THEN rest
                  ELSE <<meta_item(meta_mapping, prices, key, value)>> \o rest
             ELSE rest

parse_meta_info(meta_mapping, meta_str) ==
    IF meta_str = <<>> THEN <<>>
    ELSE meta_items_of(meta_mapping,
                       pao_prices(meta_str),
                       meta_values_of(meta_pairs(meta_str, 1), <<>>))

----------------------------------------------------------------------------
(* OrderMigrationTool.convert_orders: one line-item cell                   *)

main_item_NoZeroGuard(line_item) ==
    LET quantity == ParseInt(qty_match(line_item)[1])
        total    == ParseFloat(total_match(line_item)[1])
    IN  [name              |-> Strip(name_match(line_item)[1]),
         quantity          |-> quantity,
         price             |-> PyDiv(total, quantity),
         sku               |-> IF sku_match(line_item) # <<>>
                               THEN Strip(sku_match(line_item)[1])
                               ELSE <<>>,
         requires_shipping |-> TRUE,
         taxable           |-> TRUE]

main_item(line_item) ==
    LET quantity == ParseInt(qty_match(line_item)[1])
        total    == ParseFloat(total_match(line_item)[1])
    IN  [name              |-> Strip(name_match(line_item)[1]),
         quantity          |-> quantity,
         price             |-> IF quantity > 0 THEN PyDiv(total, quantity)
                               ELSE Ratio(0, 1),
         sku               |-> IF sku_match(line_item) # <<>>
                               THEN Strip(sku_match(line_item)[1])
                               ELSE <<>>,
         requires_shipping |-> TRUE,
         taxable           |-> TRUE]

\* An exception raised while the items were computed
ItemsRaise(items) ==
    \E k \in 1..Len(items) : items[k].price = ZeroDivisionError

\* The items one non-empty cell adds to order_items
slot_items_MetaOutsideGuard(meta_mapping, line_item) ==
    (IF /\ name_match(line_item) # <<>>
        /\ qty_match(line_item) # <<>>
        /\ total_match(line_item) # <<>>
     THEN <<main_item(line_item)>>
     ELSE <<>>) \o parse_meta_info(meta_mapping, line_item)

slot_items_DerivedSubtracted(meta_mapping, line_item) ==
    IF /\ name_match(line_item) # <<>>
       /\ qty_match(line_item) # <<>>
       /\ total_match(line_item) # <<>>
    THEN LET main    == main_item(line_item)
             derived == parse_meta_info(meta_mapping, line_item)
             RECURSIVE Sum(_)
             Sum(items) == IF items = <<>> THEN 0
                           ELSE Head(items).price.num + Sum(Tail(items))
             net     == ParseFloat(total_match(line_item)[1]) - Sum(derived)
         IN  <<[main EXCEPT !.price = IF main.quantity > 0
                                      THEN PyDiv(net, main.quantity)
                                      ELSE Ratio(0, 1)]>> \o derived
    ELSE <<>>

slot_items(meta_mapping, line_item) ==
    IF /\ name_match(line_item) # <<>>
       /\ qty_match(line_item) # <<>>
       /\ total_match(line_item) # <<>>
    THEN <<main_item(line_item)>> \o parse_meta_info(meta_mapping, line_item)
    ELSE <<>>

----------------------------------------------------------------------------
(* Texts used by the inputs of the model                                   *)

Txt ==
    [k_name |-> <<"n","a","m","e">>,
     k_quantity |-> <<"q","u","a","n","t","i","t","y">>,
     k_total |-> <<"t","o","t","a","l">>,
     k_sku |-> <<"s","k","u">>,
     k_meta_burr |-> <<"m","e","t","a",":","p","a","_","b","u","r","r","-","s","e","t">>,
     k_meta_color |-> <<"m","e","t","a",":","p","a","_","c","o","l","o","r">>,
     k_meta_gift |-> <<"m","e","t","a",":","g","i","f","t","-","w","r","a","p">>,
     k_meta_note |-> <<"m","e","t","a",":","n","o","t","e">>,
     k_meta_size |-> <<"m","e","t","a",":","s","i","z","e">>,
     k_meta_pao |-> <<"m","e","t","a",":","_","p","a","o","_","i","d","s">>,
     key_burr |-> <<"p","a","_","b","u","r","r","-","s","e","t">>,
     key_color |-> <<"p","a","_","c","o","l","o","r">>,
     key_gift |-> <<"g","i","f","t","-","w","r","a","p">>,
     key_note |-> <<"n","o","t","e">>,
     Widget |-> <<"W","i","d","g","e","t">>,
     Gadget |-> <<"G","a","d","g","e","t">>,
     Gizmo |-> <<"G","i","z","m","o">>,
     W1 |-> <<"W","-","1">>,
     n0 |-> <<"0">>,
     n1 |-> <<"1">>,
     n2 |-> <<"2">>,
     n3 |-> <<"3">>,
     x |-> <<"x">>,
     n1998 |-> <<"1","9",".","9","8">>,
     n20 |-> <<"2","0">>,
     n5 |-> <<"5">>,
     abc |-> <<"a","b","c">>,
     Standard |-> <<"S","t","a","n","d","a","r","d">>,
     Red |-> <<"R","e","d">>,
     Gold_Foil |-> <<"G","o","l","d"," ","F","o","i","l">>,
     Plain |-> <<"P","l","a","i","n">>,
     hello |-> <<"h","e","l","l","o">>,
     Large |-> <<"L","a","r","g","e">>,
     Burr_Set |-> <<"B","u","r","r"," ","S","e","t">>,
     burr_set_ |-> <<"b","u","r","r","-","s","e","t","-">>,
     Color |-> <<"C","o","l","o","r">>,
     color_ |-> <<"c","o","l","o","r","-">>,
     Gift_Wrap |-> <<"G","i","f","t"," ","W","r","a","p">>,
     gift_wrap_ |-> <<"g","i","f","t","-","w","r","a","p","-">>,
     Note |-> <<"N","o","t","e">>,
     note_ |-> <<"n","o","t","e","-">>,
     burr_price |-> <<"b","u","r","r","_","p","r","i","c","e">>,
     gift_price |-> <<"g","i","f","t","_","p","r","i","c","e">>,
     pao_gift |-> <<"a",":","1",":","{","s",":","3",":","\"","k","e","y","\"",";","s",":","9",":","\"","g","i","f","t","-","w","r","a","p","\"",";","s",":","5",":","\"","v","a","l","u","e","\"",";","s",":","4",":","\"","G","o","l","d","\"",";","s",":","9",":","\"","r","a","w","_","p","r","i","c","e","\"",";","d",":","5",";","}">>,
     n1001 |-> <<"1","0","0","1">>,
     n1002 |-> <<"1","0","0","2">>,
     nan |-> <<"n","a","n">>,
     hash |-> <<"#">>,
     email_a |-> <<"a","@","x",".","i","o">>,
     email_b |-> <<"b","@","x",".","i","o">>,
     completed |-> <<"c","o","m","p","l","e","t","e","d">>,
     processing |-> <<"p","r","o","c","e","s","s","i","n","g">>,
     paid |-> <<"p","a","i","d">>,
     pending |-> <<"p","e","n","d","i","n","g">>,
     fulfilled |-> <<"f","u","l","f","i","l","l","e","d">>,
     unfulfilled |-> <<"u","n","f","u","l","f","i","l","l","e","d">>,
     USD |-> <<"U","S","D">>,
     Sofia |-> <<"S","o","f","i","a">>,
     Standard_Burr_Set |-> <<"S","t","a","n","d","a","r","d"," ","B","u","r","r"," ","S","e","t">>,
     burr_set_standard |-> <<"b","u","r","r","-","s","e","t","-","s","t","a","n","d","a","r","d">>,
     Electronics |-> <<"E","l","e","c","t","r","o","n","i","c","s">>,
     electronics_x |-> <<"e","l","e","c","t","r","o","n","i","c","s","!">>,
     Electronics_ba36 |-> <<"E","l","e","c","t","r","o","n","i","c","s"," ","b","a","3","6">>,
     electronics |-> <<"e","l","e","c","t","r","o","n","i","c","s">>,
     electronics_ba36 |-> <<"e","l","e","c","t","r","o","n","i","c","s","-","b","a","3","6">>]

----------------------------------------------------------------------------
(* Input rows.  A line-item cell of the export is a sequence of fields     *)
(* [k, v], written in the file as k:v joined by '|'; the empty cell is     *)
(* the NaN that pandas reads.  str(row[line_item_key]) is the cell's text. *)

MaxOrders == 2      \* rows of the input file
MaxSlots == 2       \* line_item_N columns of the input file
MaxMeta == 2        \* meta fields of one enumerated cell
LineItemColumns == 19

NaN == <<>>

Field(k, v) == [k |-> k, v |-> v]

RenderField(f) == f.k \o <<":">> \o f.v

LineItemText(cell) ==
    JoinWith([i \in 1..Len(cell) |-> RenderField(cell[i])], <<"|">>)

\* str(x) of a cell: NaN prints as 'nan'
Str(x) == IF x = NaN THEN Txt.nan ELSE x

\* The rules of a meta mapping file: two attribute keys, one add-on with a
\* name suffix and one with a name prefix.
ZernoMapping ==
    (Txt.key_burr :> [name_prefix |-> <<>>, name_suffix |-> Txt.Burr_Set,
                  sku_prefix |-> Txt.burr_set_, price_field |-> Txt.burr_price])
 @@ (Txt.key_color :> [name_prefix |-> <<>>, name_suffix |-> Txt.Color,
                   sku_prefix |-> Txt.color_, price_field |-> <<>>])
 @@ (Txt.key_gift :> [name_prefix |-> <<>>, name_suffix |-> Txt.Gift_Wrap,
                  sku_prefix |-> Txt.gift_wrap_, price_field |-> Txt.gift_price])
 @@ (Txt.key_note :> [name_prefix |-> Txt.Note, name_suffix |-> <<>>,
                  sku_prefix |-> Txt.note_, price_field |-> <<>>])

Mappings == {<<>>, ZernoMapping}

\* What the grammar of a cell says, independently of the regular
\* expressions: the values of the fields with key k, and whether the three
\* required fields are present and well formed.
FieldValues(cell, k) ==
    LET fs == SelectSeq(cell, LAMBDA f : f.k = k)
    IN  [i \in 1..Len(fs) |-> fs[i].v]

IsIntegerText(v) == v # <<>> /\ \A i \in 1..Len(v) : v[i] \in DigitChars

IsDecimalText(v) ==
    /\ v # <<>>
    /\ v[1] \in DigitChars
    /\ \A i \in 1..Len(v) : v[i] \in DigitChars \cup {"."}
    /\ Cardinality({i \in 1..Len(v) : v[i] = "."}) <= 1

WellFormedCell(cell) ==
    /\ \E i \in 1..Len(cell) : cell[i].k = Txt.k_name /\ cell[i].v # <<>>
    /\ \E i \in 1..Len(cell) : cell[i].k = Txt.k_quantity /\ IsIntegerText(cell[i].v)
    /\ \E i \in 1..Len(cell) : cell[i].k = Txt.k_total /\ IsDecimalText(cell[i].v)

\* Cells of the rows of a run: a plain one, one with an attribute and two
\* add-ons, one without total that carries an add-on, one with quantity 0.
CellPlain ==
    <<Field(Txt.k_name, Txt.Widget), Field(Txt.k_quantity, Txt.n2),
      Field(Txt.k_total, Txt.n1998), Field(Txt.k_sku, Txt.W1)>>
CellMeta ==
    <<Field(Txt.k_name, Txt.Gizmo), Field(Txt.k_quantity, Txt.n3), Field(Txt.k_total, Txt.n20),
      Field(Txt.k_meta_burr, Txt.Standard), Field(Txt.k_meta_gift, Txt.Gold_Foil),
      Field(Txt.k_meta_note, Txt.hello)>>
CellNoTotal ==
    <<Field(Txt.k_name, Txt.Gadget), Field(Txt.k_quantity, Txt.n1),
      Field(Txt.k_meta_gift, Txt.Plain)>>
CellZeroQty ==
    <<Field(Txt.k_name, Txt.Widget), Field(Txt.k_quantity, Txt.n0), Field(Txt.k_total, Txt.n5),
      Field(Txt.k_meta_note, Txt.hello)>>

RunCells == {NaN, CellMeta, CellNoTotal, CellZeroQty}

\* Sequences over S of length 0..n and of length exactly n
SeqsUpTo(S, n) == UNION {[1..m -> S] : m \in 0..n}

OrderRow(number, email, status, date_ok, cells) ==
    [order_number   |-> number,
     customer_email |-> email,
     status         |-> status,
     order_date_ok  |-> date_ok,
     order_currency |-> Txt.USD,
     billing_city   |-> Txt.Sofia,
     tax_total      |-> 150,
     shipping_total |-> 500,
     order_total    |-> 4998,
     line_items     |-> cells]

\* Rows of the input file: a complete header with every combination of
\* cells, and four fixed rows: a plain order and headers with a missing
\* order number, a missing e-mail or an unparseable date.
PlainCells == [i \in 1..MaxSlots |-> IF i = 1 THEN CellPlain ELSE NaN]

VariedRows ==
    {OrderRow(Txt.n1001, Txt.email_a, Txt.completed, TRUE, cells) :
        cells \in [1..MaxSlots -> RunCells]}

FixedRows ==
    {OrderRow(Txt.n1002, Txt.email_b, Txt.processing, TRUE, PlainCells),
     OrderRow(NaN, Txt.email_b, Txt.processing, TRUE, PlainCells),
     OrderRow(Txt.n1002, NaN, Txt.completed, TRUE, PlainCells),
     OrderRow(Txt.n1002, Txt.email_b, Txt.completed, FALSE, PlainCells)}

\* The input files of a run: up to MaxOrders rows, at most one of them
\* with varied cells.
InputFiles ==
    SeqsUpTo(FixedRows, MaxOrders)
    \cup {around[1] \o <<row>> \o around[2] :
            row \in VariedRows,
            around \in {p \in SeqsUpTo(FixedRows, MaxOrders - 1)
                                \X SeqsUpTo(FixedRows, MaxOrders - 1) :
                          Len(p[1]) + Len(p[2]) <= MaxOrders - 1}}

----------------------------------------------------------------------------
(* OrderMigrationTool.convert_orders: one run                              *)

VARIABLES
    pc,              \* stage of convert_orders
    meta_mapping,    \* self.meta_mapping
    df,              \* the rows read from input_file
    row_i,           \* number of rows the loop has finished
    shopify_orders,  \* the output buffer
    stats,           \* self.stats
    output_file,     \* <<>> or <<the rows written by to_csv>>
    report,          \* <<>> or <<the report written by generate_report>>
    raised,          \* the exception convert_orders re-raised to its caller
    trace            \* history: for every finished row, its outcome, the
                     \* position of its first output row and the number
                     \* of items of each of its cells

ordersVars == <<pc, meta_mapping, df, row_i, shopify_orders, stats,
                output_file, report, raised, trace>>

\* The part of order_data kept by the model; the other address columns are
\* copied from the row in the same way as Billing City.
order_data(row) ==
    [Name               |-> Txt.hash \o Str(row.order_number),
     Email              |-> row.customer_email,
     Financial_Status   |-> IF row.status = Txt.completed THEN Txt.paid
                            ELSE Txt.pending,
     Fulfillment_Status |-> IF row.status = Txt.completed THEN Txt.fulfilled
                            ELSE Txt.unfulfilled,
     Currency           |-> row.order_currency,
     Billing_City       |-> row.billing_city]

\* pd.to_datetime(row['order_date']).strftime(...) raises on a missing or
\* unparseable date
HeaderRaises(row) == ~row.order_date_ok

\* for i in range(1, 20): the items of each cell of the row, in column order
per_slot_items(mapping, row) ==
    LET n == IF Len(row.line_items) < LineItemColumns
             THEN Len(row.line_items) ELSE LineItemColumns
    IN  [i \in 1..n |->
           IF row.line_items[i] # NaN
           THEN slot_items(mapping, LineItemText(row.line_items[i]))
           ELSE <<>>]

RECURSIVE Flatten(_)
Flatten(ss) == IF ss = <<>> THEN <<>> ELSE Head(ss) \o Flatten(Tail(ss))

\* Totals are set on the row of the item with idx = 0 only; a column that
\* a row does not set is the empty cell <<>>.
CarriesTotals_EveryRow(idx) == idx >= 0

CarriesTotals(idx) == idx = 0

item_order(row, item, idx) ==
    order_data(row) @@
    [Lineitem_name              |-> item.name,
     Lineitem_quantity          |-> item.quantity,
     Lineitem_price             |-> item.price,
     Lineitem_sku               |-> item.sku,
     Lineitem_requires_shipping |-> item.requires_shipping,
     Lineitem_taxable           |-> item.taxable,
     Tax_1_Value         |-> IF CarriesTotals(idx) THEN <<row.tax_total>>
                             ELSE <<>>,
     Shipping_Line_Price |-> IF CarriesTotals(idx) THEN <<row.shipping_total>>
                             ELSE <<>>,
     Total               |-> IF CarriesTotals(idx) THEN <<row.order_total>>
                             ELSE <<>>]

\* The rows one order appends to shopify_orders
order_rows_MainsFirst(mapping, row) ==
    LET slots  == per_slot_items(mapping, row)
        mains  == Flatten([i \in 1..Len(slots) |->
                             IF slots[i] = <<>> THEN <<>>
                             ELSE <<Head(slots[i])>>])
        others == Flatten([i \in 1..Len(slots) |->
                             IF slots[i] = <<>> THEN <<>>
                             ELSE Tail(slots[i])])
        order_items == mains \o others
    IN  [k \in 1..Len(order_items) |-> item_order(row, order_items[k], k - 1)]

order_rows(mapping, row) ==
    LET order_items == Flatten(per_slot_items(mapping, row))
    IN  [k \in 1..Len(order_items) |-> item_order(row, order_items[k], k - 1)]

InitStats ==
    [total_orders |-> 0, successful |-> 0, failed |-> 0, warnings |-> 0,
     line_items_created |-> 0]

Init ==
    /\ pc = "load_mapping"
    /\ meta_mapping = <<>>
    /\ df = <<>>
    /\ row_i = 0
    /\ shopify_orders = <<>>
    /\ stats = InitStats
    /\ output_file = <<>>
    /\ report = <<>>
    /\ raised = FALSE
    /\ trace = <<>>

\* No meta_mapping_file argument: self.meta_mapping stays {}
NoMetaMapping ==
    /\ pc = "load_mapping"
    /\ pc' = "read_input"
    /\ UNCHANGED <<meta_mapping, df, row_i, shopify_orders, stats,
                   output_file, report, raised, trace>>

\* load_meta_mapping: the rules of the file when it exists and can be read,
\* {} when it does not exist and {} when reading it raises
LoadMetaMapping ==
    /\ pc = "load_mapping"
    /\ \E exists \in BOOLEAN, readable \in BOOLEAN :
          meta_mapping' = IF exists /\ readable THEN ZernoMapping ELSE <<>>
    /\ pc' = "read_input"
    /\ UNCHANGED <<df, row_i, shopify_orders, stats, output_file, report,
                   raised, trace>>

\* df = pd.read_csv(input_file); stats['total_orders'] = len(df)
ReadInput ==
    /\ pc = "read_input"
    /\ \E rows \in InputFiles :
          /\ df' = rows
          /\ stats' = [stats EXCEPT !.total_orders = Len(rows)]
    /\ pc' = "rows"
    /\ UNCHANGED <<meta_mapping, row_i, shopify_orders, output_file, report,
                   raised, trace>>

\* pd.read_csv raises: logged and re-raised by the outer handler
ReadInputFails ==
    /\ pc = "read_input"
    /\ pc' = "raised"
    /\ raised' = TRUE
    /\ UNCHANGED <<meta_mapping, df, row_i, shopify_orders, stats,
                   output_file, report, trace>>

\* One iteration of the loop over df.iterrows(), exception handler included
ProcessOrder_FailedKeepsRows ==
    /\ pc = "rows"
    /\ row_i < Len(df)
    /\ LET row  == df[row_i + 1]
           rows == order_rows(meta_mapping, row)
       IN  /\ shopify_orders' = shopify_orders \o rows
           /\ stats' =
                IF HeaderRaises(row)
                THEN [stats EXCEPT !.line_items_created = @ + Len(rows),
                                   !.failed = @ + 1]
                ELSE [stats EXCEPT !.line_items_created = @ + Len(rows),
                                   !.successful = @ + 1]
           /\ trace' = Append(trace,
                         [outcome |-> IF HeaderRaises(row) THEN "failed"
                                      ELSE "successful",
                          first |-> Len(shopify_orders) + 1,
                          counts |-> [i \in 1..Len(row.line_items) |->
                                        Len(per_slot_items(meta_mapping,
                                                           row)[i])]])
    /\ row_i' = row_i + 1
    /\ UNCHANGED <<pc, meta_mapping, df, output_file, report, raised>>

ProcessOrder_EmptyNotCounted ==
    /\ pc = "rows"
    /\ row_i < Len(df)
    /\ LET row  == df[row_i + 1]
           rows == order_rows(meta_mapping, row)
       IN  IF HeaderRaises(row) \/ rows = <<>>
           THEN /\ stats' = [stats EXCEPT !.failed = @ + 1]
                /\ trace' = Append(trace,
                              [outcome |-> "failed",
                               first |-> Len(shopify_orders) + 1,
                               counts |-> <<>>])
                /\ UNCHANGED shopify_orders
           ELSE /\ shopify_orders' = shopify_orders \o rows
                /\ stats' = [stats EXCEPT
                               !.line_items_created = @ + Len(rows),
                               !.successful = @ + 1]
                /\ trace' = Append(trace,
                              [outcome |-> "successful",
                               first |-> Len(shopify_orders) + 1,
                               counts |-> [i \in 1..Len(row.line_items) |->
                                             Len(per_slot_items(meta_mapping,
                                                                row)[i])]])
    /\ row_i' = row_i + 1
    /\ UNCHANGED <<pc, meta_mapping, df, output_file, report, raised>>

ProcessOrder ==
    /\ pc = "rows"
    /\ row_i < Len(df)
    /\ LET row == df[row_i + 1]
       IN  IF \/ HeaderRaises(row)
              \/ ItemsRaise(Flatten(per_slot_items(meta_mapping, row)))
           THEN /\ stats' = [stats EXCEPT !.failed = @ + 1]
                /\ trace' = Append(trace,
                              [outcome |-> "failed",
                               first |-> Len(shopify_orders) + 1,
                               counts |-> <<>>])
                /\ UNCHANGED shopify_orders
           ELSE LET slots == per_slot_items(meta_mapping, row)
                    rows  == order_rows(meta_mapping, row)
                IN  /\ shopify_orders' = shopify_orders \o rows
                    /\ stats' = [stats EXCEPT
                                   !.line_items_created = @ + Len(rows),
                                   !.successful = @ + 1]
                    /\ trace' = Append(trace,
                                  [outcome |-> "successful",
                                   first |-> Len(shopify_orders) + 1,
                                   counts |-> [i \in 1..Len(slots) |->
                                                 Len(slots[i])]])
    /\ row_i' = row_i + 1
    /\ UNCHANGED <<pc, meta_mapping, df, output_file, report, raised>>

success_rate(st) ==
    LET total == IF st.total_orders > 1 THEN st.total_orders ELSE 1
    IN  PyDiv(st.successful * 100, total)

\* The loop is over and shopify_orders is not empty: to_csv, then
\* generate_report
SaveAndReport ==
    /\ pc = "rows"
    /\ row_i = Len(df)
    /\ shopify_orders # <<>>
    /\ output_file' = <<shopify_orders>>
    /\ report' = <<[statistics |-> stats, success_rate |-> success_rate(stats)]>>
    /\ pc' = "done"
    /\ UNCHANGED <<meta_mapping, df, row_i, shopify_orders, stats, raised,
                   trace>>

\* to_csv raises: logged and re-raised, no report
SaveFails ==
    /\ pc = "rows"
    /\ row_i = Len(df)
    /\ shopify_orders # <<>>
    /\ pc' = "raised"
    /\ raised' = TRUE
    /\ UNCHANGED <<meta_mapping, df, row_i, shopify_orders, stats,
                   output_file, report, trace>>

\* The loop is over and shopify_orders is empty: a warning is logged,
\* nothing is written and generate_report is not called
NoOrders ==
    /\ pc = "rows"
    /\ row_i = Len(df)
    /\ shopify_orders = <<>>
    /\ pc' = "done"
    /\ UNCHANGED <<meta_mapping, df, row_i, shopify_orders, stats,
                   output_file, report, raised, trace>>

----------------------------------------------------------------------------
(* One line-item cell on its own: the body of the loop over the columns    *)
(* applied to an enumerated cell.                                          *)

VARIABLES
    cell_pc,        \* "input", then "converted"
    cell,           \* the cell of the row
    cell_mapping,   \* self.meta_mapping
    cell_items,     \* the items the cell added to order_items
    cell_raised     \* whether computing them raised

cellVars == <<cell_pc, cell, cell_mapping, cell_items, cell_raised>>

Optional(k, vs) == {<<>>} \cup {<<Field(k, v)>> : v \in vs}

MetaFields ==
    {Field(Txt.k_meta_burr, Txt.Standard), Field(Txt.k_meta_color, Txt.Red),
     Field(Txt.k_meta_gift, Txt.Gold_Foil), Field(Txt.k_meta_gift, Txt.Plain),
     Field(Txt.k_meta_note, Txt.hello), Field(Txt.k_meta_size, Txt.Large),
     Field(Txt.k_meta_pao, Txt.pao_gift), Field(Txt.k_meta_pao, Txt.abc)}

\* Every combination of present, absent and malformed required fields
\* before one add-on, and the plain cell followed by up to MaxMeta metas.
CellInputs ==
    {n \o q \o t \o k \o <<Field(Txt.k_meta_gift, Txt.Gold_Foil)>> :
        n \in Optional(Txt.k_name, {Txt.Widget, <<>>}),
        q \in Optional(Txt.k_quantity, {Txt.n0, Txt.n1, Txt.n2, Txt.n3, Txt.x}),
        t \in Optional(Txt.k_total, {Txt.n1998, Txt.n20, Txt.abc}),
        k \in Optional(Txt.k_sku, {Txt.W1})}
    \cup {CellPlain \o metas : metas \in SeqsUpTo(MetaFields, MaxMeta)}

InitCell ==
    /\ cell_pc = "input"
    /\ cell \in CellInputs
    /\ cell_mapping \in Mappings
    /\ cell_items = <<>>
    /\ cell_raised = FALSE

ConvertCell ==
    /\ cell_pc = "input"
    /\ LET items == slot_items(cell_mapping, LineItemText(cell))
       IN  /\ cell_raised' = ItemsRaise(items)
           /\ cell_items' = IF ItemsRaise(items) THEN <<>> ELSE items
    /\ cell_pc' = "converted"
    /\ UNCHANGED <<cell, cell_mapping>>

----------------------------------------------------------------------------
(* BaseMigrationTool.convert_data: one run of the driver.  validate_item   *)
(* and convert_item are abstract; an item of the input says what they do   *)
(* with it.                                                                *)

MaxItems == 3       \* rows of the input file
MaxList == 2        \* longest list convert_item returns

VARIABLES
    d_pc,             \* stage of convert_data
    mapping,          \* the mapping loaded from mapping_file
    d_df,             \* the rows read from input_file
    item_i,           \* number of rows the loop has finished
    converted_items,  \* the output buffer
    d_stats,          \* self.stats
    d_output,         \* <<>> or <<the rows written by to_csv>>
    d_report,         \* <<>> or <<the report written by generate_report>>
    d_raised,         \* "" or the stage whose exception convert_data
                      \* re-raised to its caller
    calls             \* history: the calls of validate_item and
                      \* convert_item, <<name, index of the row>>

driverVars == <<d_pc, mapping, d_df, item_i, converted_items, d_stats,
                d_output, d_report, d_raised, calls>>

\* validate_item(item) returns (is_valid, errors) or raises
ValidateOutcomes == {"valid", "invalid", "raises"}

\* convert_item(item) returns None, a dict, a list of n dicts, or raises;
\* a dict with n = 0 is {}
ConvertOutcomes ==
    {[kind |-> "none", n |-> 0], [kind |-> "dict", n |-> 0],
     [kind |-> "dict", n |-> 1], [kind |-> "raises", n |-> 0]}
    \cup {[kind |-> "list", n |-> n] : n \in 0..MaxList}

Items ==
    {[validate |-> "valid", convert |-> c] : c \in ConvertOutcomes}
    \cup {[validate |-> v, convert |-> [kind |-> "none", n |-> 0]] :
            v \in ValidateOutcomes \ {"valid"}}

\* The records convert_item returns for row i
Converted_FirstOnly(i, c) ==
    [k \in 1..(IF c.n > 1 THEN 1 ELSE c.n) |-> [row |-> i, part |-> k]]

Converted(i, c) == [k \in 1..c.n |-> [row |-> i, part |-> k]]

\* if converted: None, {} and [] are false
Truthy_NotNone(c) == c.kind \in {"dict", "list"}

Truthy(c) == c.kind \in {"dict", "list"} /\ c.n > 0

InitDriverStats ==
    [total_items |-> 0, successful |-> 0, failed |-> 0, warnings |-> 0]

InitDriver ==
    /\ d_pc = "load_mapping"
    /\ mapping = <<>>
    /\ d_df = <<>>
    /\ item_i = 0
    /\ converted_items = <<>>
    /\ d_stats = InitDriverStats
    /\ d_output = <<>>
    /\ d_report = <<>>
    /\ d_raised = ""
    /\ calls = <<>>

\* mapping_file is None or does not exist: mapping stays {}
DriverNoMapping ==
    /\ d_pc = "load_mapping"
    /\ d_pc' = "read_input"
    /\ UNCHANGED <<mapping, d_df, item_i, converted_items, d_stats, d_output,
                   d_report, d_raised, calls>>

\* mapping_file exists: pd.read_csv and load_mapping
DriverLoadMapping ==
    /\ d_pc = "load_mapping"
    /\ mapping' = <<"loaded">>
    /\ d_pc' = "read_input"
    /\ UNCHANGED <<d_df, item_i, converted_items, d_stats, d_output,
                   d_report, d_raised, calls>>

\* pd.read_csv(mapping_file) raises: logged and re-raised
DriverLoadMappingFails ==
    /\ d_pc = "load_mapping"
    /\ d_pc' = "raised"
    /\ d_raised' = "load_mapping"
    /\ UNCHANGED <<mapping, d_df, item_i, converted_items, d_stats, d_output,
                   d_report, calls>>

\* df = pd.read_csv(input_file); stats['total_items'] = len(df)
DriverReadInput ==
    /\ d_pc = "read_input"
    /\ \E rows \in SeqsUpTo(Items, MaxItems) :
          /\ d_df' = rows
          /\ d_stats' = [d_stats EXCEPT !.total_items = Len(rows)]
    /\ d_pc' = "items"
    /\ UNCHANGED <<mapping, item_i, converted_items, d_output, d_report,
                   d_raised, calls>>

\* pd.read_csv(input_file) raises: logged and re-raised
DriverReadInputFails_Swallowed ==
    /\ d_pc = "read_input"
    /\ d_pc' = "items"
    /\ d_raised' = "read_input"
    /\ UNCHANGED <<mapping, d_df, item_i, converted_items, d_stats, d_output,
                   d_report, calls>>

DriverReadInputFails ==
    /\ d_pc = "read_input"
    /\ d_pc' = "raised"
    /\ d_raised' = "read_input"
    /\ UNCHANGED <<mapping, d_df, item_i, converted_items, d_stats, d_output,
                   d_report, calls>>

\* The body of the loop for row i: the counter it increments ("none" when
\* it increments nothing), whether convert_item was called, and the
\* records it appends to converted_items.
item_result_InvalidConverted(i, item) ==
    IF item.validate = "raises"
    THEN [counter |-> "failed", converts |-> FALSE, records |-> <<>>]
    ELSE IF item.convert.kind = "raises"
    THEN [counter |-> "failed", converts |-> TRUE, records |-> <<>>]
    ELSE IF Truthy(item.convert)
    THEN [counter |-> "successful", converts |-> TRUE,
          records |-> Converted(i, item.convert)]
    ELSE [counter |-> IF item.validate = "invalid" THEN "warnings" ELSE "none",
          converts |-> TRUE, records |-> <<>>]

item_result_RaiseUncounted(i, item) ==
    IF item.validate = "invalid"
    THEN [counter |-> "warnings", converts |-> FALSE, records |-> <<>>]
    ELSE IF item.validate = "raises"
    THEN [counter |-> "none", converts |-> FALSE, records |-> <<>>]
    ELSE IF item.convert.kind = "raises"
    THEN [counter |-> "warnings", converts |-> TRUE, records |-> <<>>]
    ELSE IF Truthy(item.convert)
    THEN [counter |-> "successful", converts |-> TRUE,
          records |-> Converted(i, item.convert)]
    ELSE [counter |-> "none", converts |-> TRUE, records |-> <<>>]

item_result(i, item) ==
    IF item.validate = "raises"
    THEN [counter |-> "failed", converts |-> FALSE, records |-> <<>>]
    ELSE IF item.validate = "invalid"
    THEN [counter |-> "warnings", converts |-> FALSE, records |-> <<>>]
    ELSE IF item.convert.kind = "raises"
    THEN [counter |-> "failed", converts |-> TRUE, records |-> <<>>]
    ELSE IF Truthy(item.convert)
    THEN [counter |-> "successful", converts |-> TRUE,
          records |-> Converted(i, item.convert)]
    ELSE [counter |-> "none", converts |-> TRUE, records |-> <<>>]

Bump(st, counter) ==
    IF counter = "none" THEN st ELSE [st EXCEPT ![counter] = @ + 1]

\* One iteration of the loop over iter_batches(df), handler included
ProcessItem ==
    /\ d_pc = "items"
    /\ item_i < Len(d_df)
    /\ LET i == item_i + 1
           r == item_result(i, d_df[i])
       IN  /\ calls' = calls \o <<<<"validate_item", i>>>>
                         \o (IF r.converts THEN <<<<"convert_item", i>>>>
                             ELSE <<>>)
           /\ d_stats' = Bump(d_stats, r.counter)
           /\ converted_items' = converted_items \o r.records
    /\ item_i' = item_i + 1
    /\ UNCHANGED <<d_pc, mapping, d_df, d_output, d_report, d_raised>>

\* The loop is over: to_csv when converted_items is not empty, a warning
\* otherwise
DriverSave_Early ==
    /\ d_pc = "items"
    /\ d_output' = IF converted_items # <<>> THEN <<converted_items>> ELSE <<>>
    /\ d_pc' = "report"
    /\ UNCHANGED <<mapping, d_df, item_i, converted_items, d_stats, d_report,
                   d_raised, calls>>

DriverSave ==
    /\ d_pc = "items"
    /\ item_i = Len(d_df)
    /\ d_output' = IF converted_items # <<>> THEN <<converted_items>> ELSE <<>>
    /\ d_pc' = "report"
    /\ UNCHANGED <<mapping, d_df, item_i, converted_items, d_stats, d_report,
                   d_raised, calls>>

\* to_csv raises: logged and re-raised
DriverSaveFails ==
    /\ d_pc = "items"
    /\ item_i = Len(d_df)
    /\ converted_items # <<>>
    /\ d_pc' = "raised"
    /\ d_raised' = "save"
    /\ UNCHANGED <<mapping, d_df, item_i, converted_items, d_stats, d_output,
                   d_report, calls>>

d_success_rate(st) ==
    LET total == IF st.total_items > 1 THEN st.total_items ELSE 1
    IN  PyDiv(st.successful * 100, total)

\* generate_report(output_file)
DriverReport ==
    /\ d_pc = "report"
    /\ d_report' = <<[statistics |-> d_stats,
                      success_rate |-> d_success_rate(d_stats)]>>
    /\ d_pc' = "done"
    /\ UNCHANGED <<mapping, d_df, item_i, converted_items, d_stats, d_output,
                   d_raised, calls>>

\* generate_report raises (the report file cannot be written): logged and
\* re-raised
DriverReportFails ==
    /\ d_pc = "report"
    /\ d_pc' = "raised"
    /\ d_raised' = "report"
    /\ UNCHANGED <<mapping, d_df, item_i, converted_items, d_stats, d_output,
                   d_report, calls>>

----------------------------------------------------------------------------
(* Text helpers of the tools                                               *)

AlnumChars == {LowerChars[i] : i \in 1..26} \cup DigitChars

\* str.upper()
Upper(s) ==
    [i \in 1..Len(s) |->
        IF \E k \in 1..26 : LowerChars[k] = s[i]
        THEN UpperChars[CHOOSE k \in 1..26 : LowerChars[k] = s[i]]
        ELSE s[i]]

\* re.sub(r'[^a-z0-9]+', '-', s): every maximal run of other characters
\* becomes one '-'
SubNonAlnum(s) ==
    LET marks == [i \in 1..Len(s) |->
                    IF s[i] \in AlnumChars THEN s[i]
                    ELSE IF i > 1 /\ s[i - 1] \notin AlnumChars THEN ""
                    ELSE "-"]
    IN  SelectSeq(marks, LAMBDA c : c # "")

\* s.strip(c) for one character c
StripChar(s, c) ==
    LET keep == {i \in 1..Len(s) : s[i] # c}
    IN  IF keep = {} THEN <<>>
        ELSE SubSeq(s, MinOf(keep), CHOOSE x \in keep : \A y \in keep : y <= x)

\* BaseMigrationTool.create_handle(text)
create_handle_NoStrip(text) ==
    IF text = <<>> THEN <<>> ELSE SubNonAlnum(Lower(text))

create_handle(text) ==
    IF text = <<>> THEN <<>>
    ELSE StripChar(SubNonAlnum(Lower(text)), "-")

\* BaseMigrationTool.clean_phone(phone), the same in OrderMigrationTool
clean_phone_AlwaysPrefixed(phone) ==
    IF phone = NaN \/ phone = <<>> THEN <<>>
    ELSE LET kept == SelectSeq(phone, LAMBDA c : c \in DigitChars \cup {"+"})
         IN  IF Len(kept) = 10 THEN <<"+", "1">> \o kept ELSE kept

clean_phone(phone) ==
    IF phone = NaN \/ phone = <<>> THEN <<>>
    ELSE LET kept == SelectSeq(phone, LAMBDA c : c \in DigitChars \cup {"+"})
         IN  IF ~StartsWith(kept, <<"+">>) /\ Len(kept) = 10
             THEN <<"+", "1">> \o kept
             ELSE kept

\* DiscountMigrationTool.clean_discount_code(code): the code returned; the
\* method touches no counter of self.stats
MaxCodeLength == 50

CodeChars ==
    {UpperChars[i] : i \in 1..26} \cup DigitChars \cup {"_", "-"}

clean_discount_code(code) ==
    IF code = <<>> THEN <<>>
    ELSE LET cleaned == SelectSeq(Upper(code), LAMBDA c : c \in CodeChars)
         IN  IF Len(cleaned) > MaxCodeLength
             THEN SubSeq(cleaned, 1, MaxCodeLength)
             ELSE cleaned

\* DiscountMigrationTool.convert_amount_type(woo_type, amount)
convert_amount_type_FixedDefault(woo_type, amount) ==
    IF woo_type = "percent" THEN <<"percentage", amount>>
    ELSE <<"fixed_amount", amount>>

convert_amount_type(woo_type, amount) ==
    IF woo_type = "percent" THEN <<"percentage", amount>>
    ELSE IF woo_type \in {"fixed_cart", "fixed_product"}
    THEN <<"fixed_amount", amount>>
    ELSE <<"percentage", amount>>

\* A value of a variant_data dict: absent (or None), a number, or a text
\* float() cannot parse.  float(variant_data.get(key, 0)) raises on a text.
Absent == [kind |-> "absent", n |-> 0]
Number(n) == [kind |-> "number", n |-> n]
BadText == [kind |-> "text", n |-> 0]

\* ProductMigrationTool.process_variants: one ProductVariant, or <<>> when
\* building it raised and the variant was skipped
ProductVariant(variant_data) ==
    IF variant_data.price = BadText \/ variant_data.regular_price = BadText
    THEN <<>>
    ELSE <<[price            |-> variant_data.price.n,
            compare_at_price |->
                IF variant_data.regular_price.kind = "number"
                     /\ variant_data.regular_price.n # 0
                THEN <<variant_data.regular_price.n>>
                ELSE <<>>]>>

RECURSIVE process_variants(_)
process_variants(variants_data) ==
    IF variants_data = <<>> THEN <<>>
    ELSE ProductVariant(Head(variants_data))
           \o process_variants(Tail(variants_data))

----------------------------------------------------------------------------
(* One call of a helper on an enumerated argument                          *)

MaxText == 4        \* longest text handed to create_handle
MaxCode == 3        \* longest short discount code
MaxVariants == 2    \* longest variants_data list

VARIABLES
    h_pc,       \* "call", then "returned"
    h_call,     \* [fn, arg]: the method called and its argument
    h_out,      \* the value returned
    h_stats     \* self.stats of the tool the method belongs to

helperVars == <<h_pc, h_call, h_out, h_stats>>

HandleTexts == SeqsUpTo({"a", "B", "1", "-", " ", "!"}, MaxText)

\* Phone numbers: a lead, three groups of digits and their separators
PhoneTexts ==
    {lead \o a \o s1 \o <<"1","2","3">> \o s2 \o c :
        lead \in {<<>>, <<"+">>, <<"+","1"," ">>, <<"(">>, <<"1">>},
        a \in {<<"5","5","5">>, <<"5","5">>},
        s1 \in {<<>>, <<"-">>, <<")"," ">>},
        s2 \in {<<>>, <<"-">>, <<"+">>},
        c \in {<<"4","5","6","7">>, <<"4","5","6","7","8">>, <<>>}}
    \cup {<<>>, <<" ">>, <<"n","/","a">>}

\* A text of n characters repeating unit
Repeated(unit, n) == [i \in 1..n |-> unit[((i - 1) % Len(unit)) + 1]]

CodeTexts ==
    SeqsUpTo({"s", "U", "2", "@", "_", "-", " "}, MaxCode)
    \cup {<<"s","u","m","m","e","r","@","2","0","!">>}
    \cup {Repeated(unit, n) :
            unit \in {<<"A">>, <<"a", "!">>, <<"x", "9", "_", " ">>},
            n \in {MaxCodeLength - 1, MaxCodeLength, MaxCodeLength + 1,
                   MaxCodeLength + 10}}

WooTypes ==
    {"percent", "fixed_cart", "fixed_product", "fixed", "percentage",
     "Percent", ""}

Amounts == {0, 1000, 2050}

VariantData ==
    [price : {Absent, Number(1999), Number(2999), BadText},
     regular_price : {Absent, Number(0), Number(1999), Number(2999),
                      Number(3999), BadText}]

DiscountStats ==
    [total_coupons |-> 0, successful |-> 0, failed |-> 0, warnings |-> 0]

ProductStats ==
    [total_products |-> 0, successful |-> 0, failed |-> 0, warnings |-> 0,
     variants_processed |-> 0, images_processed |-> 0]

InitHelper ==
    /\ h_pc = "call"
    /\ h_out = <<>>
    /\ \/ /\ h_call \in [fn : {"create_handle"}, arg : HandleTexts]
          /\ h_stats = <<>>
       \/ /\ h_call \in [fn : {"clean_phone"}, arg : PhoneTexts]
          /\ h_stats = <<>>
       \/ /\ h_call \in [fn : {"clean_discount_code"}, arg : CodeTexts]
          /\ h_stats = DiscountStats
       \/ /\ h_call \in [fn : {"convert_amount_type"},
                         arg : WooTypes \X Amounts]
          /\ h_stats = DiscountStats
       \/ /\ h_call \in [fn : {"process_variants"},
                         arg : SeqsUpTo(VariantData, MaxVariants)]
          /\ h_stats = ProductStats

CreateHandle ==
    /\ h_pc = "call" /\ h_call.fn = "create_handle"
    /\ h_out' = create_handle(h_call.arg)
    /\ h_pc' = "returned"
    /\ UNCHANGED <<h_call, h_stats>>

CleanPhone ==
    /\ h_pc = "call" /\ h_call.fn = "clean_phone"
    /\ h_out' = clean_phone(h_call.arg)
    /\ h_pc' = "returned"
    /\ UNCHANGED <<h_call, h_stats>>

CleanDiscountCode ==
    /\ h_pc = "call" /\ h_call.fn = "clean_discount_code"
    /\ h_out' = clean_discount_code(h_call.arg)
    /\ h_pc' = "returned"
    /\ UNCHANGED <<h_call, h_stats>>

ConvertAmountType ==
    /\ h_pc = "call" /\ h_call.fn = "convert_amount_type"
    /\ h_out' = convert_amount_type(h_call.arg[1], h_call.arg[2])
    /\ h_pc' = "returned"
    /\ UNCHANGED <<h_call, h_stats>>

\* process_variants counts the variants it built
ProcessVariants ==
    /\ h_pc = "call" /\ h_call.fn = "process_variants"
    /\ h_out' = process_variants(h_call.arg)
    /\ h_stats' = [h_stats EXCEPT !.variants_processed =
                                     @ + Len(process_variants(h_call.arg))]
    /\ h_pc' = "returned"
    /\ UNCHANGED h_call

----------------------------------------------------------------------------
(* ReviewMigrationTool.convert_reviews: one run                            *)

MaxReviews == 2     \* rows of the reviews file

DefaultRating == 5

VARIABLES
    r_pc,             \* stage of convert_reviews
    r_mapping_file,   \* product_mapping_file: "none", or the state of the
                      \* file named: "present", "absent", "unreadable"
    product_mapping,  \* the dict read from the mapping file
    r_df,             \* [has_rating, rows]: the file read by pd.read_csv
    r_i,              \* number of rows the loop has finished
    shopify_reviews,  \* the output buffer
    r_stats,          \* self.stats
    r_output,         \* <<>> or <<the rows written by to_csv>>
    r_report,         \* <<>> or <<the report written>>
    r_raised          \* whether convert_reviews re-raised

reviewVars == <<r_pc, r_mapping_file, product_mapping, r_df, r_i,
                shopify_reviews, r_stats, r_output, r_report, r_raised>>

\* int(x) of a number held in tenths: truncation toward zero
IntOf(n) == IF n >= 0 THEN n \div 10 ELSE -((-n) \div 10)

\* The rating cell of a row of a file that has a rating column: empty
\* (NaN), a number in tenths, or a text
RatingCells ==
    {Absent, BadText} \cup
    {Number(n) : n \in {-10, 0, 10, 30, 45, 50, 59, 60, 100}}

\* A row: required is "ok", "empty" (comment_author is '') or "nan"
\* (comment_content is NaN, which is truthy)
ReviewRows == [required : {"ok", "empty", "nan"}, rating : RatingCells]

ReviewFiles ==
    [has_rating : {TRUE}, rows : SeqsUpTo(ReviewRows, MaxReviews)]
    \cup [has_rating : {FALSE},
          rows : SeqsUpTo([required : {"ok", "empty", "nan"},
                           rating : {Absent}], MaxReviews)]

\* validate_review: is_valid
validate_review(has_rating, review) ==
    /\ review.required # "empty"
    /\ has_rating => /\ review.rating.kind = "number"
                     /\ 1 <= IntOf(review.rating.n)
                     /\ IntOf(review.rating.n) <= 5

product_id == <<"1", "0", "1">>

\* The record built for a valid row; building it raises when
\* comment_content is NaN
shopify_review(i, has_rating, review, pm) ==
    [row            |-> i,
     Product_Handle |-> DictGet(pm, product_id, create_handle(product_id)),
     Rating         |-> IF has_rating THEN IntOf(review.rating.n)
                        ELSE DefaultRating]

InitReviewStats ==
    [total_reviews |-> 0, successful |-> 0, failed |-> 0, warnings |-> 0]

InitReviews ==
    /\ r_pc = "load_mapping"
    /\ r_mapping_file \in {"none", "present", "absent", "unreadable"}
    /\ product_mapping = <<>>
    /\ r_df = <<>>
    /\ r_i = 0
    /\ shopify_reviews = <<>>
    /\ r_stats = InitReviewStats
    /\ r_output = <<>>
    /\ r_report = <<>>
    /\ r_raised = FALSE

\* if product_mapping_file: pd.read_csv(...) and dict(zip(...))
ReviewsLoadMapping ==
    /\ r_pc = "load_mapping"
    /\ r_mapping_file \in {"none", "present"}
    /\ product_mapping' =
         IF r_mapping_file = "present"
         THEN <<<<product_id, <<"w","i","d","g","e","t">>>>>>
         ELSE <<>>
    /\ r_pc' = "read_input"
    /\ UNCHANGED <<r_mapping_file, r_df, r_i, shopify_reviews, r_stats,
                   r_output, r_report, r_raised>>

\* pd.read_csv of a file that does not exist or cannot be parsed raises;
\* the outer handler logs and re-raises
ReviewsLoadMappingFails ==
    /\ r_pc = "load_mapping"
    /\ r_mapping_file \in {"absent", "unreadable"}
    /\ r_pc' = "raised"
    /\ r_raised' = TRUE
    /\ UNCHANGED <<r_mapping_file, product_mapping, r_df, r_i,
                   shopify_reviews, r_stats, r_output, r_report>>

ReviewsReadInput ==
    /\ r_pc = "read_input"
    /\ \E file \in ReviewFiles :
          /\ r_df' = file
          /\ r_stats' = [r_stats EXCEPT !.total_reviews = Len(file.rows)]
    /\ r_pc' = "rows"
    /\ UNCHANGED <<r_mapping_file, product_mapping, r_i, shopify_reviews,
                   r_output, r_report, r_raised>>

ReviewsReadInputFails ==
    /\ r_pc = "read_input"
    /\ r_pc' = "raised"
    /\ r_raised' = TRUE
    /\ UNCHANGED <<r_mapping_file, product_mapping, r_df, r_i,
                   shopify_reviews, r_stats, r_output, r_report>>

\* The body of the loop for one row
ProcessReview ==
    /\ r_pc = "rows"
    /\ r_i < Len(r_df.rows)
    /\ LET review == r_df.rows[r_i + 1]
       IN  IF ~validate_review(r_df.has_rating, review)
           THEN /\ r_stats' = [r_stats EXCEPT !.warnings = @ + 1]
                /\ UNCHANGED shopify_reviews
           ELSE IF review.required = "nan"
           THEN /\ r_stats' = [r_stats EXCEPT !.failed = @ + 1]
                /\ UNCHANGED shopify_reviews
           ELSE /\ shopify_reviews' =
                     Append(shopify_reviews,
                            shopify_review(r_i + 1, r_df.has_rating, review,
                                           product_mapping))
                /\ r_stats' = [r_stats EXCEPT !.successful = @ + 1]
    /\ r_i' = r_i + 1
    /\ UNCHANGED <<r_pc, r_mapping_file, product_mapping, r_df, r_output,
                   r_report, r_raised>>

\* to_csv and generate_report, whatever the number of rows
ReviewsSaveAndReport ==
    /\ r_pc = "rows"
    /\ r_i = Len(r_df.rows)
    /\ r_output' = <<shopify_reviews>>
    /\ r_report' = <<[statistics |-> r_stats,
                      success_rate |->
                          PyDiv(r_stats.successful * 100,
                                IF r_stats.total_reviews > 1
                                THEN r_stats.total_reviews ELSE 1)]>>
    /\ r_pc' = "done"
    /\ UNCHANGED <<r_mapping_file, product_mapping, r_df, r_i,
                   shopify_reviews, r_stats, r_raised>>

ReviewsSaveFails ==
    /\ r_pc = "rows"
    /\ r_i = Len(r_df.rows)
    /\ r_pc' = "raised"
    /\ r_raised' = TRUE
    /\ UNCHANGED <<r_mapping_file, product_mapping, r_df, r_i,
                   shopify_reviews, r_stats, r_output, r_report>>

----------------------------------------------------------------------------
(* CollectionMigrationTool: create_unique_handle and one run of            *)
(* convert_collections                                                     *)

MaxCategories == 2  \* rows of the categories file

VARIABLES
    c_pc,                 \* stage of convert_collections
    c_image_file,         \* image_mapping_file: "none", or the state of the
                          \* file named: "present", "absent", "unreadable"
    image_mapping,        \* the dict read from the mapping file
    c_df,                 \* the rows read; term_id of a row is its position
    c_i,                  \* number of rows the first loop has finished
    rel_i,                \* number of relations the second loop has finished
    processed_handles,    \* self.processed_handles
    shopify_collections,  \* the output buffer
    parent_child_relations,
    c_stats,              \* self.stats
    c_output,             \* <<>> or <<the rows written by to_csv>>
    c_report,             \* <<>> or <<the report written>>
    c_raised,             \* whether convert_collections re-raised
    handles_returned      \* history: [title, handle] of every call of
                          \* create_unique_handle that returned

collectionVars ==
    <<c_pc, c_image_file, image_mapping, c_df, c_i, rel_i, processed_handles,
      shopify_collections, parent_child_relations, c_stats, c_output,
      c_report, c_raised, handles_returned>>

\* hashlib.md5(f"{base_handle}{counter}".encode()).hexdigest()[:4] for the
\* base handles of the model: the values md5 gives
md5_hex4(base_handle, counter) ==
    LET digests ==
          IF base_handle = Txt.electronics
          THEN <<
               <<"b","a","3","6">>, <<"5","d","0","b">>, <<"0","f","5","d">>, <<"d","8","b","e">>, <<"0","8","f","c">>, <<"7","9","3","3">>, <<"2","5","9","9">>, <<"d","9","9","8">>>>
          ELSE <<
               <<"d","d","2","3">>, <<"7","5","b","9">>, <<"8","e","9","4">>, <<"e","5","e","1">>, <<"6","b","3","6">>, <<"5","9","0","8">>, <<"0","d","8","3">>, <<"7","d","4","6">>>>
    IN  digests[counter]

\* The while loop of create_unique_handle
RECURSIVE unique_handle(_, _, _, _)
unique_handle(base_handle, handle, counter, processed) ==
    IF handle \notin processed THEN handle
    ELSE unique_handle(base_handle,
                       base_handle \o <<"-">> \o md5_hex4(base_handle, counter),
                       counter + 1, processed)

base_handle_of(title) == StripChar(SubNonAlnum(Lower(title)), "-")

\* create_unique_handle(title): the handle returned, which the method also
\* adds to processed_handles
create_unique_handle_NoLoop(title, processed) == base_handle_of(title)

create_unique_handle(title, processed) ==
    unique_handle(base_handle_of(title), base_handle_of(title), 1, processed)

\* A name cell that is NaN: a float, on which title.lower() raises
NaNName == <<"float nan">>

CategoryRows ==
    [name : {Txt.Electronics, Txt.electronics_x, Txt.Electronics_ba36,
             NaNName},
     parent : 0..(MaxCategories + 1)]

InitCollectionStats ==
    [total_collections |-> 0, successful |-> 0, failed |-> 0, warnings |-> 0,
     rules_created |-> 0]

InitCollections ==
    /\ c_pc = "load_mapping"
    /\ c_image_file \in {"none", "present", "absent", "unreadable"}
    /\ image_mapping = <<>>
    /\ c_df = <<>>
    /\ c_i = 0
    /\ rel_i = 0
    /\ processed_handles = {}
    /\ shopify_collections = <<>>
    /\ parent_child_relations = <<>>
    /\ c_stats = InitCollectionStats
    /\ c_output = <<>>
    /\ c_report = <<>>
    /\ c_raised = FALSE
    /\ handles_returned = <<>>

\* if image_mapping_file: pd.read_csv(...) and dict(zip(...))
CollectionsLoadMapping ==
    /\ c_pc = "load_mapping"
    /\ c_image_file \in {"none", "present"}
    /\ image_mapping' = IF c_image_file = "present" THEN <<"loaded">> ELSE <<>>
    /\ c_pc' = "read_input"
    /\ UNCHANGED <<c_image_file, c_df, c_i, rel_i, processed_handles,
                   shopify_collections, parent_child_relations, c_stats,
                   c_output, c_report, c_raised, handles_returned>>

\* pd.read_csv of a file that does not exist or cannot be parsed raises;
\* the outer handler logs and re-raises
CollectionsLoadMappingFails ==
    /\ c_pc = "load_mapping"
    /\ c_image_file \in {"absent", "unreadable"}
    /\ c_pc' = "raised"
    /\ c_raised' = TRUE
    /\ UNCHANGED <<c_image_file, image_mapping, c_df, c_i, rel_i,
                   processed_handles, shopify_collections,
                   parent_child_relations, c_stats, c_output, c_report,
                   handles_returned>>

CollectionsReadInput ==
    /\ c_pc = "read_input"
    /\ \E rows \in SeqsUpTo(CategoryRows, MaxCategories) :
          /\ c_df' = rows
          /\ c_stats' = [c_stats EXCEPT !.total_collections = Len(rows)]
    /\ c_pc' = "rows"
    /\ UNCHANGED <<c_image_file, image_mapping, c_i, rel_i, processed_handles,
                   shopify_collections, parent_child_relations, c_output,
                   c_report, c_raised, handles_returned>>

CollectionsReadInputFails ==
    /\ c_pc = "read_input"
    /\ c_pc' = "raised"
    /\ c_raised' = TRUE
    /\ UNCHANGED <<c_image_file, image_mapping, c_df, c_i, rel_i,
                   processed_handles, shopify_collections,
                   parent_child_relations, c_stats, c_output, c_report,
                   handles_returned>>

\* The body of the first loop for one category
ProcessCategory ==
    /\ c_pc = "rows"
    /\ c_i < Len(c_df)
    /\ LET category == c_df[c_i + 1]
           handle   == create_unique_handle(category.name, processed_handles)
       IN  IF category.name = NaNName
           THEN /\ c_stats' = [c_stats EXCEPT !.failed = @ + 1]
                /\ UNCHANGED <<processed_handles, shopify_collections,
                               parent_child_relations, handles_returned>>
           ELSE /\ processed_handles' = processed_handles \cup {handle}
                /\ handles_returned' =
                     Append(handles_returned,
                            [title |-> category.name, handle |-> handle])
                /\ shopify_collections' =
                     Append(shopify_collections,
                            [Handle |-> handle, Title |-> category.name,
                             Parent_Handle |-> <<>>])
                /\ parent_child_relations' =
                     IF category.parent # 0
                     THEN Append(parent_child_relations,
                                 [child |-> handle,
                                  parent_id |-> category.parent])
                     ELSE parent_child_relations
                /\ c_stats' = [c_stats EXCEPT !.successful = @ + 1,
                                              !.rules_created = @ + 1]
    /\ c_i' = c_i + 1
    /\ UNCHANGED <<c_pc, c_image_file, image_mapping, c_df, rel_i, c_output,
                   c_report, c_raised>>

\* The body of the second loop for one parent-child relation
ProcessRelation ==
    /\ c_pc = "rows"
    /\ c_i = Len(c_df)
    /\ rel_i < Len(parent_child_relations)
    /\ LET relation == parent_child_relations[rel_i + 1]
           found    == relation.parent_id \in 1..Len(c_df)
           title    == c_df[relation.parent_id].name
           handle   == create_unique_handle(title, processed_handles)
           child    == MinOf({k \in 1..Len(shopify_collections) :
                               shopify_collections[k].Handle = relation.child})
       IN  IF ~found \/ title = NaNName
           THEN /\ c_stats' = [c_stats EXCEPT !.warnings = @ + 1]
                /\ UNCHANGED <<processed_handles, shopify_collections,
                               handles_returned>>
           ELSE /\ processed_handles' = processed_handles \cup {handle}
                /\ handles_returned' =
                     Append(handles_returned,
                            [title |-> title, handle |-> handle])
                /\ shopify_collections' =
                     [shopify_collections EXCEPT
                         ![child].Parent_Handle = <<handle>>]
                /\ UNCHANGED c_stats
    /\ rel_i' = rel_i + 1
    /\ UNCHANGED <<c_pc, c_image_file, image_mapping, c_df, c_i,
                   parent_child_relations, c_output, c_report, c_raised>>

\* to_csv, then generate_report, which divides by total_collections
CollectionsSaveAndReport ==
    /\ c_pc = "rows"
    /\ c_i = Len(c_df)
    /\ rel_i = Len(parent_child_relations)
    /\ c_output' = <<shopify_collections>>
    /\ LET rate == PyDiv(c_stats.successful * 100, c_stats.total_collections)
       IN  IF rate = ZeroDivisionError
           THEN /\ c_pc' = "raised"
                /\ c_raised' = TRUE
                /\ UNCHANGED c_report
           ELSE /\ c_pc' = "done"
                /\ c_report' = <<[statistics |-> c_stats,
                                  success_rate |-> rate]>>
                /\ UNCHANGED c_raised
    /\ UNCHANGED <<c_image_file, image_mapping, c_df, c_i, rel_i,
                   processed_handles, shopify_collections,
                   parent_child_relations, c_stats, handles_returned>>

CollectionsSaveFails ==
    /\ c_pc = "rows"
    /\ c_i = Len(c_df)
    /\ rel_i = Len(parent_child_relations)
    /\ c_pc' = "raised"
    /\ c_raised' = TRUE
    /\ UNCHANGED <<c_image_file, image_mapping, c_df, c_i, rel_i,
                   processed_handles, shopify_collections,
                   parent_child_relations, c_stats, c_output, c_report,
                   handles_returned>>

----------------------------------------------------------------------------
(* CustomerMigrationTool.convert_customers: one run                        *)

MaxCustomers == 2    \* rows of the WooCommerce export
MaxSubscribers == 2  \* records of the MailChimp lists

VARIABLES
    u_pc,               \* stage of convert_customers
    woo_file,           \* "none" or "present"
    mailchimp_folder,   \* "none" or "present"
    woo_df,             \* rows of the WooCommerce export
    subscribers,        \* self.mailchimp_data['subscribers']
    w_i,                \* number of WooCommerce rows finished
    s_i,                \* number of subscribers finished
    seen_emails,        \* self.seen_emails
    shopify_customers,  \* self.shopify_customers
    u_stats,            \* self.stats
    u_output,           \* <<>> or <<the rows written by to_csv>>
    u_report,           \* <<>> or <<the report written>>
    u_raised,           \* whether convert_customers re-raised
    kept_from           \* history: for every output record, the source and
                        \* position of the input row it was made from

customerVars ==
    <<u_pc, woo_file, mailchimp_folder, woo_df, subscribers, w_i, s_i,
      seen_emails, shopify_customers, u_stats, u_output, u_report, u_raised,
      kept_from>>

\* Email cells: two spellings of one address, and the empty cell
Emails == {<<"a","@","x">>, <<"A","@","x">>, NaN}

\* A 'Billing Address' cell holding a JSON list makes parse_address return
\* a list, on which .get raises
WooRows ==
    {w \in [Email : Emails, Billing_Address : {"{}", "[]"}] :
        w.Billing_Address = "[]" => w.Email = <<"a","@","x">>}

\* A subscriber of a list that has segments: the test
\* "subscriber.get('Email Address') in str(...)" raises on a NaN address
SubscriberRows ==
    {s \in [Email_Address : Emails, segments : BOOLEAN] :
        s.segments => s.Email_Address = NaN}

None == [raises |-> FALSE, record |-> <<>>, duplicate |-> FALSE]

\* parse_woo_customer(customer)
parse_woo_customer(customer) ==
    IF customer.Billing_Address = "[]"
    THEN [None EXCEPT !.raises = TRUE]
    ELSE [None EXCEPT !.record =
            <<[Email |-> Lower(Str(customer.Email)),
               Customer_Type |-> "regular"]>>]

\* parse_mailchimp_subscriber(subscriber): None for an email already seen,
\* which the method counts in duplicates_skipped
parse_mailchimp_subscriber_NoLower(subscriber, seen) ==
    LET email == Str(subscriber.Email_Address)
    IN  IF email \in seen THEN [None EXCEPT !.duplicate = TRUE]
        ELSE IF subscriber.segments /\ subscriber.Email_Address = NaN
        THEN [None EXCEPT !.raises = TRUE]
        ELSE [None EXCEPT !.record =
                <<[Email |-> email,
                   Customer_Type |-> "newsletter_subscriber"]>>]

parse_mailchimp_subscriber(subscriber, seen) ==
    LET email == Lower(Str(subscriber.Email_Address))
    IN  IF email \in seen THEN [None EXCEPT !.duplicate = TRUE]
        ELSE IF subscriber.segments /\ subscriber.Email_Address = NaN
        THEN [None EXCEPT !.raises = TRUE]
        ELSE [None EXCEPT !.record =
                <<[Email |-> email,
                   Customer_Type |-> "newsletter_subscriber"]>>]

InitCustomerStats ==
    [total_customers |-> 0, woocommerce_customers |-> 0,
     mailchimp_subscribers |-> 0, successful |-> 0, failed |-> 0,
     warnings |-> 0, duplicates_skipped |-> 0]

InitCustomers ==
    /\ u_pc = "woo"
    /\ woo_file \in {"none", "present"}
    /\ mailchimp_folder \in {"none", "present"}
    /\ woo_df = <<>>
    /\ subscribers = <<>>
    /\ w_i = 0
    /\ s_i = 0
    /\ seen_emails = {}
    /\ shopify_customers = <<>>
    /\ u_stats = InitCustomerStats
    /\ u_output = <<>>
    /\ u_report = <<>>
    /\ u_raised = FALSE
    /\ kept_from = <<>>

\* if woo_file: woo_df = pd.read_csv(woo_file)
ReadWooFile ==
    /\ u_pc = "woo"
    /\ IF woo_file = "present"
       THEN woo_df' \in SeqsUpTo(WooRows, MaxCustomers)
       ELSE UNCHANGED woo_df
    /\ u_pc' = "woo_rows"
    /\ UNCHANGED <<woo_file, mailchimp_folder, subscribers, w_i, s_i,
                   seen_emails, shopify_customers, u_stats, u_output,
                   u_report, u_raised, kept_from>>

ReadWooFileFails ==
    /\ u_pc = "woo"
    /\ woo_file = "present"
    /\ u_pc' = "raised"
    /\ u_raised' = TRUE
    /\ UNCHANGED <<woo_file, mailchimp_folder, woo_df, subscribers, w_i, s_i,
                   seen_emails, shopify_customers, u_stats, u_output,
                   u_report, kept_from>>

\* The body of the WooCommerce loop for one row
ProcessWooCustomer ==
    /\ u_pc = "woo_rows"
    /\ w_i < Len(woo_df)
    /\ LET parsed == parse_woo_customer(woo_df[w_i + 1])
       IN  IF parsed.raises
           THEN /\ u_stats' = [u_stats EXCEPT !.failed = @ + 1]
                /\ UNCHANGED <<seen_emails, shopify_customers, kept_from>>
           ELSE /\ seen_emails' = seen_emails \cup {parsed.record[1].Email}
                /\ shopify_customers' =
                     Append(shopify_customers, parsed.record[1])
                /\ kept_from' = Append(kept_from, [source |-> "woo", row |-> w_i + 1])
                /\ u_stats' =
                     [u_stats EXCEPT !.woocommerce_customers = @ + 1,
                                     !.successful = @ + 1]
    /\ w_i' = w_i + 1
    /\ UNCHANGED <<u_pc, woo_file, mailchimp_folder, woo_df, subscribers,
                   s_i, u_output, u_report, u_raised>>

\* if mailchimp_folder: load_mailchimp_info_folder(mailchimp_folder)
LoadMailchimp ==
    /\ u_pc = "woo_rows"
    /\ w_i = Len(woo_df)
    /\ IF mailchimp_folder = "present"
       THEN subscribers' \in SeqsUpTo(SubscriberRows, MaxSubscribers)
       ELSE UNCHANGED subscribers
    /\ u_pc' = "subscribers"
    /\ UNCHANGED <<woo_file, mailchimp_folder, woo_df, w_i, s_i, seen_emails,
                   shopify_customers, u_stats, u_output, u_report, u_raised,
                   kept_from>>

LoadMailchimpFails ==
    /\ u_pc = "woo_rows"
    /\ w_i = Len(woo_df)
    /\ mailchimp_folder = "present"
    /\ u_pc' = "raised"
    /\ u_raised' = TRUE
    /\ UNCHANGED <<woo_file, mailchimp_folder, woo_df, subscribers, w_i, s_i,
                   seen_emails, shopify_customers, u_stats, u_output,
                   u_report, kept_from>>

\* The body of the MailChimp loop for one subscriber
ProcessSubscriber ==
    /\ u_pc = "subscribers"
    /\ s_i < Len(subscribers)
    /\ LET parsed ==
             parse_mailchimp_subscriber(subscribers[s_i + 1], seen_emails)
       IN  IF parsed.duplicate
           THEN /\ u_stats' = [u_stats EXCEPT !.duplicates_skipped = @ + 1]
                /\ UNCHANGED <<seen_emails, shopify_customers, kept_from>>
           ELSE IF parsed.raises
           THEN /\ u_stats' = [u_stats EXCEPT !.failed = @ + 1]
                /\ UNCHANGED <<seen_emails, shopify_customers, kept_from>>
           ELSE /\ seen_emails' = seen_emails \cup {parsed.record[1].Email}
                /\ shopify_customers' =
                     Append(shopify_customers, parsed.record[1])
                /\ kept_from' =
                     Append(kept_from, [source |-> "mailchimp", row |-> s_i + 1])
                /\ u_stats' =
                     [u_stats EXCEPT !.mailchimp_subscribers = @ + 1,
                                     !.successful = @ + 1]
    /\ s_i' = s_i + 1
    /\ UNCHANGED <<u_pc, woo_file, mailchimp_folder, woo_df, subscribers,
                   w_i, u_output, u_report, u_raised>>

\* total_customers, then to_csv and generate_report if there is any record
CustomersSaveAndReport ==
    /\ u_pc = "subscribers"
    /\ s_i = Len(subscribers)
    /\ u_stats' = [u_stats EXCEPT !.total_customers = Len(shopify_customers)]
    /\ IF shopify_customers # <<>>
       THEN /\ u_output' = <<shopify_customers>>
            /\ u_report' =
                 <<[statistics |-> u_stats',
                    success_rate |->
                      PyDiv(u_stats.successful * 100,
                            IF Len(shopify_customers) > 1
                            THEN Len(shopify_customers) ELSE 1)]>>
       ELSE UNCHANGED <<u_output, u_report>>
    /\ u_pc' = "done"
    /\ UNCHANGED <<woo_file, mailchimp_folder, woo_df, subscribers, w_i, s_i,
                   seen_emails, shopify_customers, u_raised, kept_from>>

CustomersSaveFails ==
    /\ u_pc = "subscribers"
    /\ s_i = Len(subscribers)
    /\ shopify_customers # <<>>
    /\ u_stats' = [u_stats EXCEPT !.total_customers = Len(shopify_customers)]
    /\ u_pc' = "raised"
    /\ u_raised' = TRUE
    /\ UNCHANGED <<woo_file, mailchimp_folder, woo_df, subscribers, w_i, s_i,
                   seen_emails, shopify_customers, u_output, u_report, kept_from>>

----------------------------------------------------------------------------
(* Specifications                                                          *)

vars == <<ordersVars, cellVars, driverVars, helperVars, reviewVars,
    collectionVars, customerVars>>

\* The variables of the parts a specification does not run
ordersRest == <<cellVars, driverVars, helperVars, reviewVars, collectionVars,
    customerVars>>
cellRest == <<ordersVars, driverVars, helperVars, reviewVars, collectionVars,
    customerVars>>
driverRest == <<ordersVars, cellVars, helperVars, reviewVars, collectionVars,
    customerVars>>
helperRest == <<ordersVars, cellVars, driverVars, reviewVars, collectionVars,
    customerVars>>
reviewRest == <<ordersVars, cellVars, driverVars, helperVars, collectionVars,
    customerVars>>
collectionRest == <<ordersVars, cellVars, driverVars, helperVars, reviewVars,
    customerVars>>
customerRest == <<ordersVars, cellVars, driverVars, helperVars, reviewVars,
    collectionVars>>

\* Variables of the parts a specification does not run
OrdersIdle ==
    /\ pc = "idle" /\ meta_mapping = <<>> /\ df = <<>> /\ row_i = 0
    /\ shopify_orders = <<>> /\ stats = InitStats /\ output_file = <<>>
    /\ report = <<>> /\ raised = FALSE /\ trace = <<>>

CellIdle ==
    /\ cell_pc = "idle" /\ cell = <<>> /\ cell_mapping = <<>>
    /\ cell_items = <<>> /\ cell_raised = FALSE

DriverIdle ==
    /\ d_pc = "idle" /\ mapping = <<>> /\ d_df = <<>> /\ item_i = 0
    /\ converted_items = <<>> /\ d_stats = InitDriverStats /\ d_output = <<>>
    /\ d_report = <<>> /\ d_raised = "" /\ calls = <<>>

HelperIdle == h_pc = "idle" /\ h_call = <<>> /\ h_out = <<>> /\ h_stats = <<>>

ReviewsIdle ==
    /\ r_pc = "idle" /\ r_mapping_file = "none" /\ product_mapping = <<>>
    /\ r_df = <<>> /\ r_i = 0 /\ shopify_reviews = <<>>
    /\ r_stats = InitReviewStats /\ r_output = <<>> /\ r_report = <<>>
    /\ r_raised = FALSE

CollectionsIdle ==
    /\ c_pc = "idle" /\ c_image_file = "none" /\ image_mapping = <<>>
    /\ c_df = <<>> /\ c_i = 0 /\ rel_i = 0 /\ processed_handles = {}
    /\ shopify_collections = <<>> /\ parent_child_relations = <<>>
    /\ c_stats = InitCollectionStats /\ c_output = <<>> /\ c_report = <<>>
    /\ c_raised = FALSE /\ handles_returned = <<>>

CustomersIdle ==
    /\ u_pc = "idle" /\ woo_file = "none" /\ mailchimp_folder = "none"
    /\ woo_df = <<>> /\ subscribers = <<>> /\ w_i = 0 /\ s_i = 0
    /\ seen_emails = {} /\ shopify_customers = <<>>
    /\ u_stats = InitCustomerStats /\ u_output = <<>> /\ u_report = <<>>
    /\ u_raised = FALSE /\ kept_from = <<>>

\* A run of convert_orders
InitOrders ==
    Init /\ CellIdle /\ DriverIdle /\ HelperIdle /\
    ReviewsIdle /\ CollectionsIdle /\ CustomersIdle

Next ==
    \/ NoMetaMapping /\ UNCHANGED ordersRest
    \/ LoadMetaMapping /\ UNCHANGED ordersRest
    \/ ReadInput /\ UNCHANGED ordersRest
    \/ ReadInputFails /\ UNCHANGED ordersRest
    \/ ProcessOrder /\ UNCHANGED ordersRest
    \/ SaveAndReport /\ UNCHANGED ordersRest
    \/ SaveFails /\ UNCHANGED ordersRest
    \/ NoOrders /\ UNCHANGED ordersRest

Spec == InitOrders /\ [][Next]_vars

\* One line-item cell
NextCell == ConvertCell /\ UNCHANGED cellRest

InitOneCell ==
    InitCell /\ OrdersIdle /\ DriverIdle /\ HelperIdle /\
    ReviewsIdle /\ CollectionsIdle /\ CustomersIdle

SpecCell == InitOneCell /\ [][NextCell]_vars

\* A run of convert_data
NextDriver ==
    \/ DriverNoMapping /\ UNCHANGED driverRest
    \/ DriverLoadMapping /\ UNCHANGED driverRest
    \/ DriverLoadMappingFails /\ UNCHANGED driverRest
    \/ DriverReadInput /\ UNCHANGED driverRest
    \/ DriverReadInputFails /\ UNCHANGED driverRest
    \/ ProcessItem /\ UNCHANGED driverRest
    \/ DriverSave /\ UNCHANGED driverRest
    \/ DriverSaveFails /\ UNCHANGED driverRest
    \/ DriverReport /\ UNCHANGED driverRest
    \/ DriverReportFails /\ UNCHANGED driverRest

InitConvertData ==
    InitDriver /\ OrdersIdle /\ CellIdle /\ HelperIdle /\
    ReviewsIdle /\ CollectionsIdle /\ CustomersIdle

SpecDriver == InitConvertData /\ [][NextDriver]_vars

\* One call of a helper
InitOneCall ==
    InitHelper /\ OrdersIdle /\ CellIdle /\ DriverIdle /\
    ReviewsIdle /\ CollectionsIdle /\ CustomersIdle

NextHelper ==
    \/ CreateHandle /\ UNCHANGED helperRest
    \/ CleanPhone /\ UNCHANGED helperRest
    \/ CleanDiscountCode /\ UNCHANGED helperRest
    \/ ConvertAmountType /\ UNCHANGED helperRest
    \/ ProcessVariants /\ UNCHANGED helperRest

SpecHelper == InitOneCall /\ [][NextHelper]_vars

\* A run of convert_reviews
InitConvertReviews ==
    InitReviews /\ OrdersIdle /\ CellIdle /\
    DriverIdle /\ HelperIdle /\ CollectionsIdle /\ CustomersIdle

NextReviews ==
    \/ ReviewsLoadMapping /\ UNCHANGED reviewRest
    \/ ReviewsLoadMappingFails /\ UNCHANGED reviewRest
    \/ ReviewsReadInput /\ UNCHANGED reviewRest
    \/ ReviewsReadInputFails /\ UNCHANGED reviewRest
    \/ ProcessReview /\ UNCHANGED reviewRest
    \/ ReviewsSaveAndReport /\ UNCHANGED reviewRest
    \/ ReviewsSaveFails /\ UNCHANGED reviewRest

SpecReviews == InitConvertReviews /\ [][NextReviews]_vars

\* A run of convert_collections
InitConvertCollections ==
    InitCollections /\ OrdersIdle /\ CellIdle /\
    DriverIdle /\ HelperIdle /\ ReviewsIdle /\ CustomersIdle

NextCollections ==
    \/ CollectionsLoadMapping /\ UNCHANGED collectionRest
    \/ CollectionsLoadMappingFails /\ UNCHANGED collectionRest
    \/ CollectionsReadInput /\ UNCHANGED collectionRest
    \/ CollectionsReadInputFails /\ UNCHANGED collectionRest
    \/ ProcessCategory /\ UNCHANGED collectionRest
    \/ ProcessRelation /\ UNCHANGED collectionRest
    \/ CollectionsSaveAndReport /\ UNCHANGED collectionRest
    \/ CollectionsSaveFails /\ UNCHANGED collectionRest

SpecCollections == InitConvertCollections /\ [][NextCollections]_vars

\* A run of convert_customers
InitConvertCustomers ==
    InitCustomers /\ OrdersIdle /\ CellIdle /\
    DriverIdle /\ HelperIdle /\ ReviewsIdle /\ CollectionsIdle

NextCustomers ==
    \/ ReadWooFile /\ UNCHANGED customerRest
    \/ ReadWooFileFails /\ UNCHANGED customerRest
    \/ ProcessWooCustomer /\ UNCHANGED customerRest
    \/ LoadMailchimp /\ UNCHANGED customerRest
    \/ LoadMailchimpFails /\ UNCHANGED customerRest
    \/ ProcessSubscriber /\ UNCHANGED customerRest
    \/ CustomersSaveAndReport /\ UNCHANGED customerRest
    \/ CustomersSaveFails /\ UNCHANGED customerRest

SpecCustomers == InitConvertCustomers /\ [][NextCustomers]_vars

----------------------------------------------------------------------------
(* Properties of a run of convert_orders                                   *)

RECURSIVE SumSeq(_)
SumSeq(ns) == IF ns = <<>> THEN 0 ELSE Head(ns) + SumSeq(Tail(ns))

\* The output rows of the j-th finished order
RowsOf(j) ==
    SubSeq(shopify_orders, trace[j].first,
           trace[j].first + SumSeq(trace[j].counts) - 1)

\* The output rows of cell i of the j-th finished order
RowsOfCell(j, i) ==
    LET start == trace[j].first + SumSeq(SubSeq(trace[j].counts, 1, i - 1))
    IN  SubSeq(shopify_orders, start, start + trace[j].counts[i] - 1)

\* The number in a column of the output, an empty cell counting for 0
CellNumber(c) == IF c = <<>> THEN 0 ELSE c[1]

SumTotal(rows) == SumSeq([k \in 1..Len(rows) |-> CellNumber(rows[k].Total)])

WellFormedCells(row) ==
    {i \in 1..Len(row.line_items) :
        row.line_items[i] # NaN /\ WellFormedCell(row.line_items[i])}

MalformedCells(row) ==
    {i \in 1..Len(row.line_items) :
        row.line_items[i] # NaN /\ ~WellFormedCell(row.line_items[i])}

\* C1: of the K >= 1 output rows of an order exactly the first one, the
\* main item of the first well-formed cell, carries Tax 1 Value, Shipping
\* Line Price and Total; the other K - 1 rows leave them empty, so that the
\* Total column of the order sums to one copy of order_total.
C1_TotalsOnFirstRowOnly ==
    \A j \in 1..Len(trace) :
        LET rows == RowsOf(j)
            row  == df[j]
        IN  Len(rows) >= 1 =>
              /\ rows[1].Tax_1_Value = <<row.tax_total>>
              /\ rows[1].Shipping_Line_Price = <<row.shipping_total>>
              /\ rows[1].Total = <<row.order_total>>
              /\ \A k \in 2..Len(rows) :
                    /\ rows[k].Tax_1_Value = <<>>
                    /\ rows[k].Shipping_Line_Price = <<>>
                    /\ rows[k].Total = <<>>
              /\ SumTotal(rows) = row.order_total
              /\ WellFormedCells(row) # {}
              /\ rows[1].Lineitem_name =
                   Strip(FieldValues(row.line_items[MinOf(WellFormedCells(row))],
                                     Txt.k_name)[1])

\* An order of two well-formed cells, one of them with a derived item, has
\* been written out after another order.
C1_Witness ==
    /\ pc = "done"
    /\ \E j \in 2..Len(trace) :
          /\ Len(RowsOf(j)) >= 3
          /\ Cardinality(WellFormedCells(df[j])) >= 2
          /\ Len(RowsOf(j - 1)) >= 1

MissingRequired(row) ==
    row.order_number = NaN \/ row.customer_email = NaN

C6_MissingRequiredRejected ==
    /\ \A j \in 1..Len(trace) :
          MissingRequired(df[j]) =>
             /\ RowsOf(j) = <<>>
             /\ trace[j].outcome \notin {"successful", "failed"}
    /\ stats.warnings =
         Cardinality({j \in 1..Len(trace) : MissingRequired(df[j])})

\* C10: a finished run that converted no row has produced a report.
C10_ReportOnZeroRows ==
    pc = "done" /\ shopify_orders = <<>> =>
        /\ report # <<>>
        /\ report[1].success_rate # ZeroDivisionError

----------------------------------------------------------------------------
(* Properties of one line-item cell                                        *)


Contains(s, p) == \E i \in 1..Len(s) : StartsWithAt(s, p, i)

\* C3: the main item of a cell with quantity 0 has price 0 and computing it
\* raises nothing; with a quantity q > 0 its price is total / q.
C3_MainItemPrice ==
    cell_pc = "converted" /\ WellFormedCell(cell) =>
        LET q     == ParseInt(FieldValues(cell, Txt.k_quantity)[1])
            total == ParseFloat(FieldValues(cell, Txt.k_total)[1])
        IN  /\ ~cell_raised
            /\ cell_items # <<>>
            /\ cell_items[1].quantity = q
            /\ q = 0 => cell_items[1].price = [num |-> 0, den |-> 1]
            /\ q > 0 => /\ cell_items[1].price.den > 0
                        /\ cell_items[1].price.num * q
                             = total * cell_items[1].price.den

\* A well-formed cell with quantity 0 has been converted.
C3_Witness ==
    /\ cell_pc = "converted"
    /\ WellFormedCell(cell)
    /\ FieldValues(cell, Txt.k_quantity)[1] = Txt.n0
    /\ ~cell_raised
    /\ Len(cell_items) >= 1
    /\ cell_items[1].price.num = 0

\* The value a key has in the cell: the one of its last occurrence
LastValue(c, k) == FieldValues(c, k)[Len(FieldValues(c, k))]

\* The meta keys of the mapping whose rule has a name suffix and no prefix
SuffixRules(m) ==
    {key \in DOMAIN m : m[key].name_suffix # <<>> /\ m[key].name_prefix = <<>>}

\* C4: with pa_burr-set configured as promotable, the cell
\* name:Widget|quantity:2|total:19.98|sku:W-1|meta:pa_burr-set:Standard
\* gives the main Widget item and the derived item 'Standard Burr Set' with
\* sku 'burr-set-standard', quantity 1 and price 0; every meta key of a cell
\* that has such a rule gives a derived item '{value} {name_suffix}' with
\* sku '{sku_prefix}{slug of value}'.
C4_PromotedMetaItems ==
    cell_pc = "converted" /\ WellFormedCell(cell) =>
        /\ (/\ cell = CellPlain \o <<Field(Txt.k_meta_burr, Txt.Standard)>>
            /\ cell_mapping = ZernoMapping)
           => /\ Len(cell_items) = 2
              /\ cell_items[1].name = Txt.Widget
              /\ cell_items[2].name = Txt.Standard_Burr_Set
              /\ cell_items[2].sku = Txt.burr_set_standard
              /\ cell_items[2].quantity = 1
              /\ cell_items[2].price = [num |-> 0, den |-> 1]
        /\ \A key \in SuffixRules(cell_mapping) :
              FieldValues(cell, kw_meta \o key) # <<>> =>
                 LET value == Strip(LastValue(cell, kw_meta \o key))
                 IN  \E k \in 2..Len(cell_items) :
                        /\ cell_items[k].name
                             = value \o <<" ">> \o cell_mapping[key].name_suffix
                        /\ cell_items[k].sku
                             = cell_mapping[key].sku_prefix
                                 \o ReplaceChar(Lower(value), " ", "-")

\* C5: a meta key registered as a variant attribute gives no derived item,
\* and the main item's name is '{name} ({variant description})', the
\* description holding the fragment 'Label: Value' of the attribute.
C5_VariantInMainName ==
    (/\ cell_pc = "converted"
     /\ WellFormedCell(cell)
     /\ cell_mapping = ZernoMapping
     /\ FieldValues(cell, Txt.k_meta_color) # <<>>)
    => LET name  == Strip(FieldValues(cell, Txt.k_name)[1])
           value == Strip(LastValue(cell, Txt.k_meta_color))
       IN  /\ \A k \in 2..Len(cell_items) :
                 ~Contains(cell_items[k].name, value)
           /\ StartsWith(cell_items[1].name, name \o <<" ", "(">>)
           /\ Contains(cell_items[1].name, <<":", " ">> \o value)
           /\ cell_items[1].name[Len(cell_items[1].name)] = ")"

----------------------------------------------------------------------------
(* Properties of a run of convert_data                                     *)

ConvertCalled(cs, i) == \E k \in 1..Len(cs) : cs[k] = <<"convert_item", i>>

\* C7: a step of the loop on a row that validate_item finds not valid adds 1
\* to warnings, leaves successful, failed and converted_items as they were,
\* does not call convert_item on the row, and leaves the loop at the
\* next row.
C7_InvalidRowIsWarning ==
    [][(/\ d_pc = "items"
        /\ item_i < Len(d_df)
        /\ d_df[item_i + 1].validate = "invalid")
       => /\ d_stats'.warnings = d_stats.warnings + 1
          /\ d_stats'.successful = d_stats.successful
          /\ d_stats'.failed = d_stats.failed
          /\ converted_items' = converted_items
          /\ ~ConvertCalled(calls', item_i + 1)
          /\ item_i' = item_i + 1
          /\ d_pc' = "items"]_vars

\* A row that was not valid has been skipped and a later row converted.
C7_Witness ==
    /\ d_pc = "done"
    /\ \E i \in 1..Len(d_df) :
          /\ d_df[i].validate = "invalid"
          /\ \E k \in (i + 1)..Len(d_df) : ConvertCalled(calls, k)
    /\ d_stats.warnings >= 1
    /\ d_stats.successful >= 1

\* The rows among the first n on which validate_item or convert_item raises
RaisingRows(n) ==
    {i \in 1..n : \/ d_df[i].validate = "raises"
                  \/ d_df[i].validate = "valid"
                       /\ d_df[i].convert.kind = "raises"}

\* C8: every row on which validate_item or convert_item raises has added
\* exactly 1 to failed and nothing to converted_items; the exception does
\* not leave convert_data, and the loop ends only after it has visited
\* every row of the input exactly once.
C8_RowExceptionIsFailed ==
    /\ d_stats.failed = Cardinality(RaisingRows(item_i))
    /\ \A k \in 1..Len(converted_items) :
          converted_items[k].row \notin RaisingRows(item_i)
    /\ d_raised # "" => item_i = Len(d_df) /\ d_pc = "raised"
    /\ d_pc \in {"report", "done"} =>
          /\ item_i = Len(d_df)
          /\ SelectSeq(calls, LAMBDA c : c[1] = "validate_item")
               = [i \in 1..Len(d_df) |-> <<"validate_item", i>>]

\* A run has finished in which the first row raised and a later row was
\* converted and written.
C8_Witness ==
    /\ d_pc = "done"
    /\ 1 \in RaisingRows(Len(d_df))
    /\ d_stats.failed >= 1
    /\ d_stats.successful >= 1
    /\ d_output # <<>>

\* C9: when reading the mapping file or the input file fails, no row is
\* validated or converted, no output and no report is written, and the
\* exception is re-raised to the caller.
C9_ReadFailureAborts ==
    d_raised \in {"load_mapping", "read_input"} =>
        /\ d_pc = "raised"
        /\ calls = <<>>
        /\ item_i = 0
        /\ d_output = <<>>
        /\ d_report = <<>>

\* Reading the input failed after the mapping had been loaded.
C9_Witness ==
    /\ d_raised = "read_input"
    /\ mapping # <<>>
    /\ d_pc = "raised"

----------------------------------------------------------------------------
(* Properties of the helpers                                               *)

Returned(fn) == h_pc = "returned" /\ h_call.fn = fn

\* C15: clean_discount_code returns the upper-cased code without the
\* characters outside [A-Z0-9_-], cut to 50 characters; when and only when
\* it cuts, the result has 50 characters and the counter codes_truncated of
\* the tool has grown by 1.
C15_CleanDiscountCode ==
    Returned("clean_discount_code") =>
        LET cleaned == SelectSeq(Upper(h_call.arg), LAMBDA c : c \in CodeChars)
            cut     == Len(cleaned) > 50
        IN  /\ h_out = SubSeq(cleaned, 1, IF cut THEN 50 ELSE Len(cleaned))
            /\ h_call.arg = <<"s","u","m","m","e","r","@","2","0","!">>
                 => h_out = <<"S","U","M","M","E","R","2","0">>
            /\ cut => /\ Len(h_out) = 50
                      /\ "codes_truncated" \in DOMAIN h_stats
                      /\ h_stats["codes_truncated"] = 1
            /\ ~cut => \/ "codes_truncated" \notin DOMAIN h_stats
                       \/ h_stats["codes_truncated"] = 0

\* C16: convert_amount_type returns the amount it was given and one of two
\* types: 'percentage' for 'percent', 'fixed_amount' for 'fixed_cart' and
\* 'fixed_product', 'percentage' for anything else.
C16_AmountTypeCollapses ==
    Returned("convert_amount_type") =>
        LET woo_type == h_call.arg[1]
        IN  /\ h_out[2] = h_call.arg[2]
            /\ h_out[1] \in {"percentage", "fixed_amount"}
            /\ woo_type = "percent" => h_out[1] = "percentage"
            /\ woo_type \in {"fixed_cart", "fixed_product"}
                 => h_out[1] = "fixed_amount"
            /\ woo_type \notin {"percent", "fixed_cart", "fixed_product"}
                 => h_out[1] = "percentage"

\* A type that is none of the three WooCommerce types has been converted.
C16_Witness ==
    /\ Returned("convert_amount_type")
    /\ h_call.arg = <<"fixed", 2050>>
    /\ h_out = <<"percentage", 2050>>

\* C18: the compare_at_price of a variant is its regular price when the
\* regular price is strictly greater than the price, and None in every
\* other case (regular price absent, equal or lower).
C18_CompareAtPrice ==
    (/\ Returned("process_variants")
     /\ \A i \in 1..Len(h_call.arg) :
           BadText \notin {h_call.arg[i].price, h_call.arg[i].regular_price})
    => /\ Len(h_out) = Len(h_call.arg)
       /\ \A i \in 1..Len(h_out) :
             LET regular == h_call.arg[i].regular_price
                 price   == h_call.arg[i].price.n
             IN  h_out[i].compare_at_price =
                    IF regular.kind = "number" /\ regular.n > price
                    THEN <<regular.n>> ELSE <<>>

\* The characters of a handle: ^[a-z0-9]+(-[a-z0-9]+)*$, or empty
IsCleanHandle(h) ==
    \/ h = <<>>
    \/ /\ \A i \in 1..Len(h) : h[i] \in AlnumChars \cup {"-"}
       /\ h[1] # "-"
       /\ h[Len(h)] # "-"
       /\ \A i \in 1..(Len(h) - 1) : ~(h[i] = "-" /\ h[i + 1] = "-")

\* C19: create_handle applied to its own result returns it unchanged, and
\* its result is empty or matches ^[a-z0-9]+(-[a-z0-9]+)*$.
C19_CreateHandleIdempotent ==
    Returned("create_handle") =>
        /\ create_handle(h_out) = h_out
        /\ IsCleanHandle(h_out)

\* A text with an upper-case letter, a run of special characters and a
\* trailing one has been turned into a handle.
C19_Witness ==
    /\ Returned("create_handle")
    /\ h_call.arg = <<"B", "!", " ", "-">>
    /\ h_out = <<"b">>

\* C20: clean_phone turns exactly 10 digits (after the removal of what is
\* neither a digit nor '+') into '+1' and the digits; an input that starts
\* with '+' only loses what is neither a digit nor '+'; an empty input
\* gives ''.
C20_CleanPhone ==
    Returned("clean_phone") =>
        LET kept == SelectSeq(h_call.arg,
                              LAMBDA c : c \in DigitChars \cup {"+"})
        IN  /\ h_call.arg = <<>> => h_out = <<>>
            /\ (Len(kept) = 10 /\ \A i \in 1..10 : kept[i] \in DigitChars)
                 => h_out = <<"+", "1">> \o kept
            /\ (h_call.arg # <<>> /\ h_call.arg[1] = "+") => h_out = kept

\* 555-123-4567 has been cleaned to +15551234567.
C20_Witness ==
    /\ Returned("clean_phone")
    /\ h_call.arg = <<"5","5","5","-","1","2","3","-","4","5","6","7">>
    /\ h_out = <<"+","1","5","5","5","1","2","3","4","5","6","7">>

----------------------------------------------------------------------------
(* Properties of a run of convert_reviews                                  *)

\* The rows of the file with no rating: no rating column, or an empty cell
NoRating(i) == ~r_df.has_rating \/ r_df.rows[i].rating = Absent

Emitted(i) == \E k \in 1..Len(shopify_reviews) : shopify_reviews[k].row = i

\* C17: every review emitted has an integer Rating in 1..5; a review with
\* an explicit rating outside 1..5 is rejected by validation and not
\* emitted; a review with no rating that is otherwise complete is emitted
\* with the default rating, which is in 1..5.
C17_RatingInRange ==
    /\ \A k \in 1..Len(shopify_reviews) : shopify_reviews[k].Rating \in 1..5
    /\ \A i \in 1..r_i :
          LET review == r_df.rows[i]
          IN  /\ (/\ r_df.has_rating
                  /\ review.rating.kind = "number"
                  /\ IntOf(review.rating.n) \notin 1..5)
                 => ~Emitted(i)
              /\ (NoRating(i) /\ review.required = "ok")
                 => \E k \in 1..Len(shopify_reviews) :
                       /\ shopify_reviews[k].row = i
                       /\ shopify_reviews[k].Rating = DefaultRating

----------------------------------------------------------------------------
(* Properties of a run of convert_collections                              *)

\* C11: a mapping file that is named but does not exist gives an empty
\* mapping table and the run goes on to read the input as if no file had
\* been named; no error is raised.  Stated for convert_collections.
C11_AbsentMappingIsEmpty ==
    [][c_pc = "load_mapping" /\ c_image_file = "absent" =>
          /\ c_pc' = "read_input"
          /\ image_mapping' = <<>>
          /\ ~c_raised']_vars

\* A handle made of a base handle, "-" and four characters of a digest
Suffixed(handle, base) ==
    /\ Len(handle) = Len(base) + 5
    /\ SubSeq(handle, 1, Len(base) + 1) = base \o <<"-">>

\* C12: the handles create_unique_handle has returned are pairwise distinct
\* and all in processed_handles, which only grows; a call with a title
\* already used returns the base handle followed by "-" and a suffix, not
\* the base handle itself.
C12_UniqueHandles ==
    /\ [](/\ \A i, j \in 1..Len(handles_returned) :
                i # j => handles_returned[i].handle # handles_returned[j].handle
          /\ \A i \in 1..Len(handles_returned) :
                handles_returned[i].handle \in processed_handles
          /\ \A i, j \in 1..Len(handles_returned) :
                i < j /\ handles_returned[i].title = handles_returned[j].title
                  => /\ Suffixed(handles_returned[j].handle,
                                 base_handle_of(handles_returned[j].title))
                     /\ handles_returned[j].handle #
                          base_handle_of(handles_returned[j].title))
    /\ [][processed_handles \subseteq processed_handles']_vars

\* "Electronics" is converted twice after "Electronics ba36" took the handle
\* the first digest would give: the second call goes round the loop twice
C12_Witness ==
    \E i, j \in 1..Len(handles_returned) :
        /\ i < j
        /\ handles_returned[i].title = Txt.Electronics
        /\ handles_returned[j].title = Txt.Electronics
        /\ handles_returned[j].handle =
             Txt.electronics \o <<"-">> \o md5_hex4(Txt.electronics, 2)

----------------------------------------------------------------------------
(* Properties of a run of convert_customers                                *)

\* The step of the MailChimp loop for a subscriber whose lower-cased email
\* is in seen_emails
DuplicateSubscriberStep ==
    /\ u_pc = "subscribers"
    /\ s_i < Len(subscribers)
    /\ s_i' = s_i + 1
    /\ Lower(Str(subscribers[s_i + 1].Email_Address)) \in seen_emails

\* C13: a MailChimp subscriber whose lower-cased email is already in
\* seen_emails is dropped: nothing is appended to the output,
\* duplicates_skipped grows by exactly 1, and successful and
\* mailchimp_subscribers stay as they were.
C13_DuplicateSubscriberDropped ==
    [][DuplicateSubscriberStep =>
          /\ shopify_customers' = shopify_customers
          /\ u_stats'.duplicates_skipped = u_stats.duplicates_skipped + 1
          /\ u_stats'.successful = u_stats.successful
          /\ u_stats'.mailchimp_subscribers = u_stats.mailchimp_subscribers]_vars

\* A subscriber spelled "A@x" was skipped after "a@x" came from the
\* WooCommerce export
C13_Witness ==
    /\ u_stats.duplicates_skipped >= 1
    /\ \E i \in 1..s_i, k \in 1..Len(shopify_customers) :
          /\ subscribers[i].Email_Address # NaN
          /\ subscribers[i].Email_Address #
               Lower(subscribers[i].Email_Address)
          /\ kept_from[k].source = "woo"
          /\ shopify_customers[k].Email =
               Lower(subscribers[i].Email_Address)

\* The input row an output record was made from, and the lower-cased email
\* of an input row
EmailOfInput(source, row) ==
    IF source = "woo" THEN Lower(Str(woo_df[row].Email))
    ELSE Lower(Str(subscribers[row].Email_Address))

\* Input row (s1, r1) is processed before input row (s2, r2)
ProcessedBefore(s1, r1, s2, r2) ==
    \/ s1 = "woo" /\ s2 = "mailchimp"
    \/ s1 = s2 /\ r1 < r2

\* C14: no two output records share a lower-cased email, whichever source
\* they came from, and the record kept for an email is the first input row
\* with that email that was converted, WooCommerce rows coming before
\* subscribers.
C14_DeduplicatedFirstSeenWins ==
    /\ \A j, k \in 1..Len(shopify_customers) :
          j # k => Lower(shopify_customers[j].Email) #
                     Lower(shopify_customers[k].Email)
    /\ \A j, k \in 1..Len(shopify_customers) :
          j < k => ProcessedBefore(kept_from[j].source, kept_from[j].row,
                                   kept_from[k].source, kept_from[k].row)
    /\ \A k \in 1..Len(shopify_customers) :
          /\ shopify_customers[k].Email =
               EmailOfInput(kept_from[k].source, kept_from[k].row)
          /\ \A r \in 1..w_i :
                /\ ~parse_woo_customer(woo_df[r]).raises
                /\ EmailOfInput("woo", r) = shopify_customers[k].Email
                => ~ProcessedBefore("woo", r, kept_from[k].source,
                                    kept_from[k].row)

----------------------------------------------------------------------------
(* Properties of the stages of a convert_data run                          *)

\* The stages in their order; "raised" is the exit of the outer handler
StageNo(stage) ==
    CASE stage = "load_mapping" -> 1
      [] stage = "read_input"   -> 2
      [] stage = "items"        -> 3
      [] stage = "report"       -> 4
      [] stage = "done"         -> 5
      [] OTHER                  -> 6

\* C21: a run goes through load mapping, read input, process rows, write
\* output, generate report in this order: no row is validated or converted
\* before the input was read, the output is written only after the last row,
\* the report only after the write step, and after a fatal error no later
\* stage is entered.
C21_StagesInOrder ==
    /\ [](/\ calls # <<>> => StageNo(d_pc) >= 3
          /\ StageNo(d_pc) <= 2 => item_i = 0 /\ converted_items = <<>>
          /\ d_output # <<>> =>
                StageNo(d_pc) >= 4 /\ item_i = Len(d_df)
          /\ d_report # <<>> =>
                /\ d_pc = "done"
                /\ item_i = Len(d_df)
                /\ converted_items # <<>> => d_output = <<converted_items>>
          /\ d_pc = "raised" =>
                /\ d_raised \in {"load_mapping", "read_input", "save",
                                 "report"}
                /\ d_report = <<>>
                /\ d_raised # "report" => d_output = <<>>
                /\ d_raised \in {"load_mapping", "read_input"} =>
                      calls = <<>> /\ item_i = 0
                /\ d_raised = "load_mapping" => d_df = <<>>)
    /\ [][/\ d_pc # d_pc' =>
               \/ d_pc' = "raised" /\ StageNo(d_pc) <= 4
               \/ StageNo(d_pc') = StageNo(d_pc) + 1 /\ d_pc # "raised"
          /\ d_pc \in {"raised", "done"} => UNCHANGED driverVars]_vars

\* A run that converted rows, wrote them and reported
C21_Witness ==
    /\ d_pc = "done"
    /\ Len(d_df) >= 2
    /\ Len(calls) >= 3
    /\ d_output = <<converted_items>>
    /\ d_report # <<>>

\* The step of the loop for a row that validate_item accepts
ConvertStep(i) ==
    /\ d_pc = "items"
    /\ item_i = i - 1
    /\ item_i' = i
    /\ d_df[i].validate = "valid"

Counted(st) == st.successful + st.failed + st.warnings

\* Rows on which convert_item was called and returned None, {} or []
EmptyResults ==
    {i \in 1..item_i :
        /\ d_df[i].validate = "valid"
        /\ d_df[i].convert.kind \in {"none", "dict", "list"}
        /\ d_df[i].convert.n = 0}

\* C28: every processed row increments at most one of successful, failed,
\* warnings, so their sum is at most the number of rows processed, which is
\* at most total_items; when the loop is over the sum equals total_items
\* exactly when no convert_item call returned an absent or empty result.
C28_CountersPartitionRows ==
    /\ [](/\ StageNo(d_pc) >= 3 =>
                /\ Counted(d_stats) <= item_i
                /\ item_i <= d_stats.total_items
          /\ StageNo(d_pc) >= 3 /\ item_i = Len(d_df) =>
                (Counted(d_stats) = d_stats.total_items <=> EmptyResults = {}))
    /\ [][/\ d_stats'.successful - d_stats.successful \in {0, 1}
          /\ d_stats'.failed - d_stats.failed \in {0, 1}
          /\ d_stats'.warnings - d_stats.warnings \in {0, 1}
          /\ Counted(d_stats') - Counted(d_stats) \in {0, 1}
          /\ Counted(d_stats') # Counted(d_stats) => item_i' = item_i + 1]_vars

\* A finished run with a warning, a failure, a success and one row whose
\* convert_item returned an empty list, which no counter saw
C28_Witness ==
    /\ d_pc = "done"
    /\ d_stats.total_items = MaxItems
    /\ Counted(d_stats) = MaxItems - 1
    /\ \E i \in EmptyResults : d_df[i].convert.kind = "list"
    /\ d_stats.failed + d_stats.warnings >= 1

----------------------------------------------------------------------------
(* Further properties of one line-item cell                                *)

\* The derived items of a converted cell: all its items but the main one
DerivedItems == SubSeq(cell_items, 2, Len(cell_items))

\* C24: the price of the main item is the cell's total divided by its
\* quantity (0 for quantity 0) whether the cell promotes no, one or several
\* derived items and whatever their prices are: derived prices are not
\* subtracted from it.
C24_MainPriceIgnoresDerived ==
    cell_pc = "converted" /\ WellFormedCell(cell) /\ ~cell_raised =>
        LET q     == ParseInt(FieldValues(cell, Txt.k_quantity)[1])
            total == ParseFloat(FieldValues(cell, Txt.k_total)[1])
            price == cell_items[1].price
        IN  /\ Len(cell_items) >= 1
            /\ cell_items[1].name = Strip(FieldValues(cell, Txt.k_name)[1])
            /\ price = IF q > 0 THEN Ratio(total, q) ELSE Ratio(0, 1)
            /\ \A k \in 1..Len(DerivedItems) :
                  DerivedItems[k].price.num > 0 /\ q > 0 =>
                     price.num * q
                       # (total - DerivedItems[k].price.num) * price.den

\* A cell whose add-on has a price of its own was converted
C24_Witness ==
    /\ cell_pc = "converted"
    /\ WellFormedCell(cell)
    /\ Len(cell_items) >= 2
    /\ \E k \in 1..Len(DerivedItems) : DerivedItems[k].price.num > 0
    /\ cell_items[1].price.num > 0

\* The meta keys of a cell, and those the tool promotes under mapping m
MetaKeys(c) ==
    {SubSeq(c[i].k, Len(kw_meta) + 1, Len(c[i].k)) :
        i \in {j \in 1..Len(c) : StartsWith(c[j].k, kw_meta)}}

PromotedKeys(c, m) ==
    {key \in MetaKeys(c) : key \in DOMAIN m /\ ~StartsWith(key, str_pa_)}

\* The derived items built for key from the value of its last occurrence
ItemsOfKey(c, m, key) ==
    LET value == Strip(LastValue(c, kw_meta \o key))
    IN  {k \in 1..Len(DerivedItems) :
            /\ DerivedItems[k].sku =
                 m[key].sku_prefix \o ReplaceChar(Lower(value), " ", "-")
            /\ Contains(DerivedItems[k].name, value)
            /\ DerivedItems[k].quantity = 1}

PaoTable(c) ==
    IF /\ FieldValues(c, Txt.k_meta_pao) # <<>>
       /\ FieldValues(c, Txt.k_meta_pao)[1] = Txt.pao_gift
    THEN <<<<Txt.key_gift, 500>>>>
    ELSE <<>>

\* C26: the price of a derived item is the entry of the add-on price table
\* under its own meta key, and 0 when the table has none; a cell whose
\* _pao_ids payload is absent or not in the key/value/raw_price format has an
\* empty table, all its derived items have price 0, and nothing is raised.
C26_DerivedPriceFromTable ==
    cell_pc = "converted" /\ WellFormedCell(cell) =>
        /\ ~cell_raised
        /\ \A key \in PromotedKeys(cell, cell_mapping) :
              \A k \in ItemsOfKey(cell, cell_mapping, key) :
                 DerivedItems[k].price =
                   Ratio(DictGet(PaoTable(cell), key, 0), 1)
        /\ PaoTable(cell) = <<>> =>
              \A k \in 1..Len(DerivedItems) :
                 DerivedItems[k].price = Ratio(0, 1)

\* An add-on next to a payload that is not in the triple format
C26_Witness ==
    /\ cell_pc = "converted"
    /\ cell_mapping = ZernoMapping
    /\ cell = CellPlain \o <<Field(Txt.k_meta_gift, Txt.Gold_Foil),
                             Field(Txt.k_meta_pao, Txt.abc)>>
    /\ ~cell_raised
    /\ Len(cell_items) = 2
    /\ cell_items[2].price = Ratio(0, 1)

----------------------------------------------------------------------------
(* Further properties of a run of convert_orders                           *)

\* The number of rows an order gives, read off its cells: one per
\* well-formed cell and one per promoted meta key of such a cell
ExpectedRowCount(row, m) ==
    SumSeq([i \in 1..Len(row.line_items) |->
              IF i \in WellFormedCells(row)
              THEN 1 + Cardinality(PromotedKeys(row.line_items[i], m))
              ELSE 0])

\* C30: line_items_created is the number of rows of the output buffer all
\* along a run; an order counted in failed adds no row, and an order counted
\* in successful adds all its rows in the same step: all together or not at
\* all.
C30_RowsAllOrNothing ==
    /\ [](stats.line_items_created = Len(shopify_orders))
    /\ [][/\ stats'.failed # stats.failed =>
                shopify_orders' = shopify_orders
          /\ shopify_orders' # shopify_orders =>
                /\ row_i' = row_i + 1
                /\ stats'.successful = stats.successful + 1
                /\ stats'.failed = stats.failed
                /\ Len(shopify_orders') =
                     Len(shopify_orders)
                       + ExpectedRowCount(df[row_i + 1], meta_mapping)
                /\ SubSeq(shopify_orders', 1, Len(shopify_orders)) =
                     shopify_orders]_vars

\* A finished run with a failed order and an order that gave several rows
C30_Witness ==
    /\ pc = "done"
    /\ stats.failed >= 1
    /\ stats.successful >= 1
    /\ Len(shopify_orders) >= 3
    /\ \E j \in 1..Len(trace) :
          trace[j].outcome = "failed" /\ df[j].line_items[1] = CellPlain

\* A row with a usable header whose cells are all empty or malformed
NoUsableCell(row) == ~HeaderRaises(row) /\ WellFormedCells(row) = {}

\* The orders that have a row in the output buffer
OrdersInOutput ==
    {shopify_orders[k].Name : k \in 1..Len(shopify_orders)}

\* C29: an order whose cells are all empty or malformed adds no row and is
\* counted in successful, with failed and warnings unchanged; successful can
\* then exceed the number of orders in the output, and a run whose orders
\* are all of this kind writes no output file.
C29_EmptyOrderIsSuccessful ==
    /\ [][pc = "rows" /\ row_i' = row_i + 1 /\ NoUsableCell(df[row_i + 1]) =>
             /\ shopify_orders' = shopify_orders
             /\ stats' = [stats EXCEPT !.successful = @ + 1]]_vars
    /\ [](pc = "done" /\ (\A j \in 1..Len(df) : NoUsableCell(df[j])) =>
             /\ output_file = <<>>
             /\ stats.successful = Len(df)
             /\ OrdersInOutput = {})

\* A finished run of one order with a malformed cell and an empty one:
\* successful is 1, no order is in the output and no file was written
C29_Witness ==
    /\ pc = "done"
    /\ Len(df) = 1
    /\ NoUsableCell(df[1])
    /\ df[1].line_items[1] = CellNoTotal
    /\ stats.successful > Cardinality(OrdersInOutput)
    /\ output_file = <<>>

\* The positions of a cell's fields that first name a promoted meta key, in
\* the order of the cell
FirstPromoted(c, m) ==
    LET P == {i \in 1..Len(c) :
                /\ StartsWith(c[i].k, kw_meta)
                /\ SubSeq(c[i].k, Len(kw_meta) + 1, Len(c[i].k))
                     \in PromotedKeys(c, m)
                /\ \A j \in 1..(i - 1) : c[j].k # c[i].k}
    IN  [n \in 1..Cardinality(P) |->
           CHOOSE i \in P : Cardinality({j \in P : j < i}) = n - 1]

\* What tells the rows of a cell apart, read off the cell: the name of the
\* main item, then the sku of each derived item
ExpectedMarks(c, m) ==
    IF c = NaN \/ ~WellFormedCell(c) THEN <<>>
    ELSE <<Strip(FieldValues(c, Txt.k_name)[1])>>
         \o [n \in 1..Len(FirstPromoted(c, m)) |->
               LET f   == c[FirstPromoted(c, m)[n]]
                   key == SubSeq(f.k, Len(kw_meta) + 1, Len(f.k))
               IN  m[key].sku_prefix
                     \o ReplaceChar(Lower(Strip(LastValue(c, f.k))), " ", "-")]

\* The same of the output rows of the j-th order
Marks(j) ==
    LET rows  == RowsOf(j)
        slots == trace[j].counts
        starts == {1 + SumSeq(SubSeq(slots, 1, i - 1)) : i \in 1..Len(slots)}
    IN  [k \in 1..Len(rows) |->
           IF k \in starts THEN rows[k].Lineitem_name
           ELSE rows[k].Lineitem_sku]

\* C23: the rows of an order come in slot order and, within a slot, the
\* main item first and then the slot's derived items in their order; rows
\* of different slots are not interleaved, and every row of the order
\* repeats the order's header fields.
C23_RowsInSlotOrder ==
    \A j \in 1..Len(trace) :
        trace[j].outcome = "successful" =>
           LET rows == RowsOf(j)
               row  == df[j]
           IN  /\ Marks(j) =
                    Flatten([i \in 1..Len(row.line_items) |->
                               ExpectedMarks(row.line_items[i], meta_mapping)])
               /\ \A i \in 1..Len(row.line_items) :
                     Len(RowsOfCell(j, i)) =
                       Len(ExpectedMarks(row.line_items[i], meta_mapping))
               /\ \A k \in 1..Len(rows) :
                     /\ rows[k].Name = Txt.hash \o Str(row.order_number)
                     /\ rows[k].Email = row.customer_email
                     /\ rows[k].Financial_Status = rows[1].Financial_Status
                     /\ rows[k].Fulfillment_Status = rows[1].Fulfillment_Status
                     /\ rows[k].Currency = row.order_currency
                     /\ rows[k].Billing_City = row.billing_city

\* An order of two slots, the first with two derived items, the second with
\* one: five rows
C23_Witness ==
    /\ pc = "done"
    /\ meta_mapping = ZernoMapping
    /\ \E j \in 1..Len(trace) :
          /\ df[j].line_items = <<CellMeta, CellZeroQty>>
          /\ Len(RowsOf(j)) = 5
          /\ Len(RowsOfCell(j, 1)) = 3

----------------------------------------------------------------------------
(* Further properties of a run of convert_collections                      *)

\* The output row made from the category with term_id p: rows are appended
\* in input order, one per category whose first-loop iteration succeeded
OutputRowOf(p) ==
    shopify_collections[Cardinality({i \in 1..p : c_df[i].name # NaNName})]

\* The parent links the second loop has written so far
LinkedRelations ==
    {r \in 1..rel_i :
        /\ parent_child_relations[r].parent_id \in 1..Len(c_df)
        /\ c_df[parent_child_relations[r].parent_id].name # NaNName}

\* C27: the Parent Handle written on a child collection is the Handle of
\* the output row of its parent category, whether the parent came before or
\* after the child in the input, and the post-processing issues no handle
\* that belongs to no output row.
C27_ParentHandleIsParentRow ==
    /\ \A r \in LinkedRelations :
          LET relation == parent_child_relations[r]
              child == CHOOSE k \in 1..Len(shopify_collections) :
                          shopify_collections[k].Handle = relation.child
          IN  shopify_collections[child].Parent_Handle =
                <<OutputRowOf(relation.parent_id).Handle>>
    /\ processed_handles =
         {shopify_collections[k].Handle : k \in 1..Len(shopify_collections)}

====
